---- MODULE Spec2Model ----
(***************************************************************************)
(* State-machine model of ART's trajectory gathering:                      *)
(*   - TrajectoryGroup.__new__ and the coroutine `_` it returns for a      *)
(*     group of pending rollouts (src/src/art/trajectories.py),            *)
(*   - record_metrics and update_pbar (src/src/art/gather_trajectories.py),*)
(*   - gather_trajectories, wrap_coroutine and the context variable        *)
(*     (src/src/art/gather_trajectories.py), as GatherTrajectoriesSpec,    *)
(*   - the context's counters and the snapshot update_pbar displays, with  *)
(*     dicts in insertion order and ints apart from floats, as DisplaySpec,*)
(*   - the gather engine and its GatherContext (art/gather.py), which      *)
(*     trajectories.py imports and calls.                                  *)
(*   - the result gather_trajectories assembles, as ResultSpec,            *)
(*   - the engine pause gate (src/src/art/unsloth/vllm.py), as EngineSpec, *)
(*   - ModelService.tune and the training task around the inputs queue     *)
(*     (src/src/art/unsloth/service.py, train.py), as TuneSpec,            *)
(*   - Backend._experimental_deploy and wait_for_together_job              *)
(*     (src/src/art/backend.py, utils/deploy_model.py), as DeploySpec.     *)
(* One asyncio event loop runs everything, so the code between two awaits  *)
(* is one atomic action.                                                   *)
(***************************************************************************)
EXTENDS Integers, Sequences, FiniteSets, TLC

\* ------------------------------------------------------------- bounds
NumGroups == 2          \* groups passed to one gather call
MaxRollouts == 3        \* rollouts (or trajectories) of one group
MaxTotal == 4           \* rollouts of one gather call
MaxCallerExc == 1       \* entries of a caller-supplied exceptions list
MaxAbs == 2             \* largest absolute max_exceptions
MaxDen == 3             \* largest denominator of a fractional max_exceptions
MaxCopies == 1          \* further constructions of a resolved group from its input
NumCalls == 2           \* calls of gather_trajectories
MaxCallGroups == 2      \* groups passed to one gather_trajectories call
MaxGroupLen == 1        \* coroutines in one group given as a list
MaxOutcomes == 3        \* outcomes reported to one displayed context
MaxResultGroups == 2    \* groups of the call whose result is assembled
MaxResultLen == 2       \* coroutines in one of its groups
MaxList == 2            \* Trajectories in a list one coroutine returns
NumEngines == 2         \* virtual engines, each with its loop calling engine_step
MaxRequests == 2        \* unfinished requests of one virtual engine
NumTuneCalls == 3       \* calls of ModelService.tune
MaxInputs == 2          \* inputs one tune call enqueues
NumDeployCalls == 3     \* calls of _experimental_deploy for one model and step

Groups == 1..NumGroups

\* max_exceptions is int | float: an absolute count k is k/1, a ratio in
\* (0,1) is num/den with 0 < num < den.
MaxExceptionsValues ==
    {[num |-> k, den |-> 1] : k \in 0..MaxAbs}
        \cup {[num |-> n, den |-> d] : n \in {1}, d \in 2..MaxDen}
        \cup {[num |-> d - 1, den |-> d] : d \in 3..MaxDen}

IsRatio(m) == m.den > 1

VARIABLES
    kind,              \* kind[g]: "pending" (awaitables) or "resolved" (Trajectories)
    num_trajectories,  \* len(ts) of group g
    caller_exceptions, \* the exceptions=[...] argument of group g
    max_exceptions,    \* GatherContext.max_exceptions
    pbar,              \* whether the context has a progress bar (pbar is not None)
    rollout,           \* rollout[g][i]: "Pending", "Running", "Succeeded", "Failed"
    done,              \* done[g]: the futures of g in the order they finished
    trajectories,      \* the list `trajectories` of the coroutine of g
    exceptions,        \* the list `exceptions` of the coroutine of g
    gstate,            \* "Pending", "Collecting", "Completed", "Aborted"
    completed_count,   \* progress numerator of the context (pbar.n)
    total_count,       \* progress denominator of the context (pbar.total)
    metric_sums,       \* Counter
    metric_divisors,   \* Counter
    gather_pc,         \* "running", "returned", "raised"
    result,            \* the list gather returns: group indices
    copies,            \* copies[g]: groups built again from the input list of g
    same_list,         \* whether the groups were all given one and the same list object
    caller_list,       \* caller_list[g]: the list object given as exceptions= to g, now
    call_pc,           \* gather_trajectories call c: "idle", "running", "returned", "raised"
    call_groups,       \* the `groups` argument of call c
    return_exceptions, \* the return_exceptions argument of call c
    caller,            \* the task that awaits call c
    token,             \* the binding set_groups_context of call c restores on exit
    groups_context_var, \* groups_context_var[t]: the context bound in task t
    groups_context,    \* groups_context[x]: the GroupsContext object x (0: the default)
    wrap,              \* wrap[t]: position of wrap_coroutine in task t
    wrap_context,      \* wrap_context[t]: the local `context` of wrap_coroutine in t
    call_result,       \* what call c returned
    engine,            \* who reports to the displayed context: "group" or "wrap"
    ctx_sums,          \* its metric_sums, a dict in insertion order
    ctx_divisors,      \* its metric_divisors
    bar_n,             \* pbar.n
    postfix,           \* the dict last given to pbar.set_postfix
    refreshed,         \* the counters as they were at that refresh
    outcomes,          \* the outcomes reported so far: a sample's id, 0 for a failure
    kept,              \* the Trajectories recorded, as record_metrics left them
    gt_groups,         \* the `groups` argument of the call whose result is assembled
    gt_return_exceptions, \* its return_exceptions argument
    gt_task,           \* gt_task[g][i]: what wrap_coroutine of coroutine i of group g did
    gt_finished,       \* the coroutines <<g, i>> in the order they finished
    gt_pc,             \* "running", "returned", "raised"
    gt_result,         \* the list of lists the call returned
    gt_raised,         \* the exception the call raised
    resume_event,      \* resume_event.is_set()
    engine_step_event, \* engine_step_event.is_set()
    step_pc,           \* step_pc[v]: the engine_step call of virtual engine v:
                       \* "idle", "blocked", "woken", "stepping"
    unfinished,        \* unfinished[v]: unfinished requests of virtual engine v
    pause_pc,          \* the pause_engine call: "idle", "waiting", "woken"
    tune_pc,           \* tune_pc[c]: tune call c: "idle", "joining", "joined",
                       \* "waiting", "saved", "raised"
    tune_n,            \* tune_n[c]: packed_tensors["tokens"].shape[0] of call c
    inputs_queue,      \* the inputs not yet taken, each as the call that put it
    unfinished_tasks,  \* inputs_queue._unfinished_tasks
    done_inputs,       \* done_inputs[c]: inputs of call c that task_done has counted
    train_task,        \* self._train_task: "none", "running", "failed"
    join_task,         \* join_task[c]: the task call c made for inputs_queue.join()
    tasks_created,     \* how many training tasks were created
    base_supported,    \* model.base_model in TOGETHER_SUPPORTED_BASE_MODELS
    jobs,              \* jobs[j]: status of job j Together holds for the model and step
    deploy_pc,         \* deploy_pc[c]: "idle", "found", "decided", "done"
    wait_for_completion, \* the wait_for_completion argument of call c
    existing_job_id,   \* existing_job_id of call c, 0 for None
    job_id,            \* job_id of call c
    deploy_result      \* what call c returned or raised

inputs == <<kind, num_trajectories, caller_exceptions, max_exceptions, pbar, same_list>>
context == <<completed_count, total_count, metric_sums, metric_divisors>>
calls == <<call_pc, call_groups, return_exceptions, caller, token, groups_context_var,
           groups_context, wrap, wrap_context, call_result>>
group_vars == <<kind, num_trajectories, caller_exceptions, max_exceptions, pbar, rollout,
                done, trajectories, exceptions, gstate, completed_count, total_count,
                metric_sums, metric_divisors, gather_pc, result, copies, same_list,
                caller_list>>
display == <<engine, ctx_sums, ctx_divisors, bar_n, postfix, refreshed, outcomes, kept>>
result_vars == <<gt_groups, gt_return_exceptions, gt_task, gt_finished, gt_pc, gt_result,
                 gt_raised>>
engine_vars == <<resume_event, engine_step_event, step_pc, unfinished, pause_pc>>
tune_vars == <<tune_pc, tune_n, inputs_queue, unfinished_tasks, done_inputs, train_task,
               join_task, tasks_created>>
deploy_vars == <<base_supported, jobs, deploy_pc, wait_for_completion, existing_job_id, job_id,
                 deploy_result>>
services == <<result_vars, engine_vars, tune_vars, deploy_vars>>
gathering == <<group_vars, calls, display>>
vars == <<group_vars, calls, display, services>>

\* ------------------------------------------------------------ helpers
RECURSIVE SumSeq(_)
SumSeq(s) == IF s = <<>> THEN 0 ELSE Head(s) + SumSeq(Tail(s))

RECURSIVE SumOver(_, _)
SumOver(f, S) ==
    IF S = {} THEN 0
    ELSE LET x == CHOOSE y \in S : TRUE IN f[x] + SumOver(f, S \ {x})

\* collections.Counter: a missing key reads as 0, += inserts the key.
CounterGet(c, k) == IF k \in DOMAIN c THEN c[k] ELSE 0

CounterAdd(c, k, v) ==
    [x \in DOMAIN c \cup {k} |-> IF x = k THEN CounterGet(c, k) + v ELSE c[x]]

\* Counter.update(mapping): adds the mapping's values key by key.
CounterUpdate(c, m) ==
    [x \in DOMAIN c \cup DOMAIN m |->
        CounterGet(c, x) + (IF x \in DOMAIN m THEN m[x] ELSE 0)]

\* Counter.update(iterable of keys): counts each key once.
CounterUpdateKeys(c, ks) ==
    [x \in DOMAIN c \cup ks |-> CounterGet(c, x) + (IF x \in ks THEN 1 ELSE 0)]

EmptyCounter == [x \in {} |-> 0]

\* ------------------------------------------------- rollouts' results
\* What rollout i of group g returns when it succeeds. logprobs holds the
\* token count of every log-prob-bearing Choice of messages_and_choices.
RolloutTrajectory(g, i) ==
    [id |-> i,
     reward |-> (g + i) % 2,
     metrics |-> IF i = 1 THEN [k \in {"steps"} |-> 4]
                 ELSE IF i = 3 THEN [k \in {"steps", "reward"} |-> IF k = "steps" THEN 6 ELSE 1]
                 ELSE [k \in {} |-> 0],
     logprobs |-> IF i = 1 THEN <<1, 5>> ELSE IF i = 2 THEN <<2, 4>> ELSE <<>>]

\* What rollout i raises when it fails, and an entry the caller supplied.
RolloutException(i) == [src |-> "rollout", id |-> i]
CallerException(j) == [src |-> "caller", id |-> j]

\* ------------------------------------------------------ record_metrics
\* Variant of WithCompletionTokens: the metrics map is replaced by a map
\* holding completion_tokens only.
WithCompletionTokens_Clobber(t) ==
    IF t.logprobs # <<>>
    THEN [t EXCEPT !.metrics =
            [k \in {"completion_tokens"} |-> SumSeq(t.logprobs) \div Len(t.logprobs)]]
    ELSE t

\* The Trajectory as record_metrics leaves it: completion_tokens is written
\* into its own metrics map when it has log-prob-bearing entries.
WithCompletionTokens(t) ==
    IF t.logprobs # <<>>
    THEN [t EXCEPT !.metrics =
            [k \in DOMAIN t.metrics \cup {"completion_tokens"} |->
                IF k = "completion_tokens"
                THEN SumSeq(t.logprobs) \div Len(t.logprobs)
                ELSE t.metrics[k]]]
    ELSE t

\* Variant of RecordedSums: nothing is recorded without a progress bar.
RecordedSums_OnlyWithPbar(sums, t) ==
    IF pbar
    THEN CounterUpdate(CounterAdd(sums, "reward", t.reward), WithCompletionTokens(t).metrics)
    ELSE sums

RecordedSums(sums, t) ==
    CounterUpdate(CounterAdd(sums, "reward", t.reward),
                  WithCompletionTokens(t).metrics)

RecordedDivisors(divs, t) ==
    CounterUpdateKeys(CounterAdd(divs, "reward", 1),
                      DOMAIN WithCompletionTokens(t).metrics)

\* ------------------------------------------------------- GatherContext
\* GatherContext.too_many_exceptions(): the context's exception counter
\* against max_exceptions, a ratio being taken over the progress total.
TooManyExceptions(sums, total, m) ==
    IF IsRatio(m)
    THEN CounterGet(sums, "exceptions") * m.den > m.num * total
    ELSE CounterGet(sums, "exceptions") > m.num

\* Variant of UpdatePbar: every call advances the bar by one.
UpdatePbar_AlwaysOne(n) == IF pbar THEN completed_count + 1 ELSE completed_count

\* GroupsContext.update_pbar(n): the bar's counter after the call; without
\* a bar nothing is counted.
UpdatePbar(n) == IF pbar THEN completed_count + n ELSE completed_count

\* ------------------------------------------------------ the coroutine
\* Outcomes of g processed so far by the loop of `_`.
Processed(g) ==
    Len(trajectories[g]) + Len(exceptions[g]) - Len(caller_exceptions[g])

\* Variant of NextCompleted: the finished futures are taken in submission
\* order instead of completion order.
NextCompleted_SubmissionOrder(g) ==
    LET seen == {trajectories[g][p].id : p \in DOMAIN trajectories[g]}
                  \cup {exceptions[g][p].id :
                          p \in Len(caller_exceptions[g]) + 1 .. Len(exceptions[g])}
        waiting == {done[g][p] : p \in DOMAIN done[g]} \ seen
    IN CHOOSE i \in waiting : \A j \in waiting : i <= j

\* asyncio.as_completed: the next future the loop awaits is the earliest
\* finished one that was not yet yielded.
NextCompleted(g) == done[g][Processed(g) + 1]

\* Variants of CanProcess: the loop goes on after the coroutine raised; the
\* futures are awaited one by one in submission order.
CanProcess_AfterAbort(g) ==
    /\ gstate[g] \in {"Collecting", "Aborted"}
    /\ Processed(g) < Len(done[g])

CanProcess_AwaitInOrder(g) ==
    /\ gstate[g] = "Collecting"
    /\ Processed(g) < Len(done[g])
    /\ rollout[g][Processed(g) + 1] \in {"Succeeded", "Failed"}

\* The loop of g has an outcome to take: the coroutine is inside the loop
\* and a future finished that as_completed has not yielded.
CanProcess(g) ==
    /\ gstate[g] = "Collecting"
    /\ Processed(g) < Len(done[g])

\* Variant of AfterOutcome: the loop ends one future early.
AfterOutcome_OneEarly(g) ==
    IF Processed(g) + 2 >= num_trajectories[g] THEN "Completed" ELSE "Collecting"

\* Variant of AfterOutcome: the loop waits for one future more than there
\* are.
AfterOutcome_OneLate(g) ==
    IF Processed(g) = num_trajectories[g] THEN "Completed" ELSE "Collecting"

\* State of the coroutine after one more outcome: the loop ends when every
\* future was yielded, and `_` returns the TrajectoryGroup.
AfterOutcome(g) ==
    IF Processed(g) + 1 = num_trajectories[g] THEN "Completed" ELSE "Collecting"

\* Failures of its own rollouts that the coroutine of g has recorded.
FailuresRecorded(g) == Len(exceptions[g]) - Len(caller_exceptions[g])

\* Variants of AfterFailure: a budget counted per group, a check made before
\* the failure is counted, no `raise` at all, a return at the first
\* tolerated failure.
AfterFailure_PerGroup(g, sums) ==
    IF TooManyExceptions([k \in {"exceptions"} |-> FailuresRecorded(g) + 1],
                         num_trajectories[g], max_exceptions)
    THEN "Aborted"
    ELSE AfterOutcome(g)

AfterFailure_StaleCount(g, sums) ==
    IF TooManyExceptions(CounterAdd(sums, "exceptions", -1), total_count, max_exceptions)
    THEN "Aborted"
    ELSE AfterOutcome(g)

AfterFailure_NoRaise(g, sums) == AfterOutcome(g)

AfterFailure_ReturnEarly(g, sums) ==
    IF TooManyExceptions(sums, total_count, max_exceptions)
    THEN "Aborted"
    ELSE "Completed"

\* The coroutine after a failure was counted: `raise` when the context says
\* too many, otherwise the loop goes on.
AfterFailure(g, sums) ==
    IF TooManyExceptions(sums, total_count, max_exceptions)
    THEN "Aborted"
    ELSE AfterOutcome(g)

\* ------------------------------------------------------------- Init
\* TrajectoryGroup.__new__: a list of Trajectories only (the empty list
\* included) gives the group itself, anything else the coroutine `_`, which
\* has not run yet and carries _num_trajectories = len(ts).
GroupKinds(n) == IF n = 0 THEN {"resolved"} ELSE {"pending", "resolved"}

CallerExceptions(n) == [j \in 1..n |-> CallerException(j)]

\* Variant of CallerListAfter: the coroutine appends to the list object it
\* was given, which every group given that object shares.
CallerListAfter_Shared(lists, g, e) ==
    [h \in Groups |-> IF h = g \/ same_list THEN Append(lists[h], e) ELSE lists[h]]

\* The caller's list objects once the coroutine of g has appended e to its
\* `exceptions`: __new__ handed the coroutine exceptions.copy(), so the
\* append lands on the copy and the objects stay as they were.
CallerListAfter(lists, g, e) == lists

GivenTrajectories(g, n) == [i \in 1..n |-> RolloutTrajectory(g, i)]

\* Variant of ProgressTotal: every group counts for one.
ProgressTotal_OnePerGroup(sizes) == Cardinality(DOMAIN sizes)

\* The progress total of one gather call: declared size of every pending
\* group, actual size of every resolved one.
ProgressTotal(sizes) == SumOver(sizes, DOMAIN sizes)

\* Variant of ResolvedGroup: the derived token metric is written into the
\* given Trajectories.
ResolvedGroup_Derives(ts, excs) ==
    [trajectories |-> [p \in DOMAIN ts |-> WithCompletionTokens(ts[p])],
     exceptions |-> excs]

\* The synchronous branch of TrajectoryGroup.__new__: the group wraps the
\* given Trajectories and the given exceptions as they are.
ResolvedGroup(ts, excs) == [trajectories |-> ts, exceptions |-> excs]

\* ------------------------------------------------ the displayed context
\* A Python number: an int, or a float held as the fraction num/den in
\* lowest terms.
RECURSIVE GCD(_, _)
GCD(a, b) == IF b = 0 THEN a ELSE GCD(b, a % b)

Abs(a) == IF a < 0 THEN -a ELSE a

IntNum(n) == [int |-> TRUE, num |-> n, den |-> 1]

Float(n, d) ==
    LET g == GCD(Abs(n), d) IN [int |-> FALSE, num |-> n \div g, den |-> d \div g]

\* a + b: an int only when both are.
NumAdd(a, b) ==
    IF a.int /\ b.int
    THEN IntNum(a.num + b.num)
    ELSE Float(a.num * b.den + b.num * a.den, a.den * b.den)

\* int(x) of a quotient n/d: the fraction is dropped, towards zero.
Trunc(n, d) == IF n >= 0 THEN n \div d ELSE -((-n) \div d)

\* A dict: its keys in insertion order and their values.
EmptyDict == [keys |-> <<>>, val |-> [k \in {} |-> IntNum(0)]]

HasKey(d, k) == k \in DOMAIN d.val

\* d[k] = v: a new key goes last, a known key keeps its place.
DictSet(d, k, v) ==
    [keys |-> IF HasKey(d, k) THEN d.keys ELSE Append(d.keys, k),
     val |-> [x \in DOMAIN d.val \cup {k} |-> IF x = k THEN v ELSE d.val[x]]]

\* Counter: d[k] += v, a missing key reading as the int 0.
DictAdd(d, k, v) == DictSet(d, k, NumAdd(IF HasKey(d, k) THEN d.val[k] ELSE IntNum(0), v))

\* Counter.update(m): the values of m are added key by key, in m's order.
RECURSIVE DictUpdate(_, _, _)
DictUpdate(d, m, p) ==
    IF p > Len(m.keys) THEN d
    ELSE DictUpdate(DictAdd(d, m.keys[p], m.val[m.keys[p]]), m, p + 1)

\* The Trajectories a rollout may return: reward is a float, a metrics
\* value is whatever the rollout stored, logprobs holds the token count of
\* every log-prob-bearing Choice.
Samples == 1..5

SampleMetrics(j) ==
    IF j = 1 THEN DictSet(EmptyDict, "steps", IntNum(-3))
    ELSE IF j = 2 THEN DictSet(DictSet(EmptyDict, "prompt_tokens", IntNum(7)), "steps", IntNum(2))
    ELSE IF j = 3 THEN DictSet(EmptyDict, "reward", Float(1, 1))
    ELSE IF j = 4 THEN DictSet(EmptyDict, "exceptions", IntNum(1))
    ELSE DictSet(EmptyDict, "completion_tokens", IntNum(9))

Sample(j) ==
    [id |-> j,
     reward |-> IF j = 5 THEN Float(1, 2) ELSE Float(j % 2, 1),
     metrics |-> SampleMetrics(j),
     logprobs |-> IF j = 2 THEN <<1, 2>> ELSE IF j = 5 THEN <<2, 4>> ELSE <<>>]

\* Variant of Derived: a completion_tokens value the rollout reported is
\* kept.
Derived_KeepReported(t) ==
    IF t.logprobs # <<>> /\ ~HasKey(t.metrics, "completion_tokens")
    THEN [t EXCEPT !.metrics =
            DictSet(@, "completion_tokens", Float(SumSeq(t.logprobs), Len(t.logprobs)))]
    ELSE t

\* record_metrics, first part: the Trajectory with the derived metric
\* stored in its metrics, sum / len being a float.
Derived(t) ==
    IF t.logprobs # <<>>
    THEN [t EXCEPT !.metrics =
            DictSet(@, "completion_tokens", Float(SumSeq(t.logprobs), Len(t.logprobs)))]
    ELSE t

\* record_metrics, second part: the reward, then the metrics map.
SumsAfter(s, t) == DictUpdate(DictAdd(s, "reward", t.reward), Derived(t).metrics, 1)

DivisorsAfter(d, t) ==
    CounterUpdateKeys(CounterAdd(d, "reward", 1), DOMAIN Derived(t).metrics.val)

TokenKeys == <<"prompt_tokens", "completion_tokens", "total_completion_tokens">>

\* postfix[key] = postfix.pop(key): the key goes last.
MoveLast(keys, k) ==
    IF \E p \in DOMAIN keys : keys[p] = k
    THEN Append(SelectSeq(keys, LAMBDA x : x # k), k)
    ELSE keys

\* Variant of TokenKeysLast: the keys stay where they are.
TokenKeysLast_NoMove(keys) == keys

\* update_pbar: the three token keys are moved to the end, one after the
\* other.
TokenKeysLast(keys) ==
    MoveLast(MoveLast(MoveLast(keys, TokenKeys[1]), TokenKeys[2]), TokenKeys[3])

\* update_pbar: the value shown for a sum s and a divisor d.
Shown(s, d) == IF s.int THEN IntNum(Trunc(s.num, d)) ELSE Float(s.num, s.den * d)

\* update_pbar: the dict given to set_postfix.
Postfix(s, d) ==
    [keys |-> TokenKeysLast(s.keys),
     val |-> [k \in DOMAIN s.val |->
                Shown(s.val[k], IF CounterGet(d, k) > 1 THEN CounterGet(d, k) ELSE 1)]]

Refreshed(n, s, d) == [shown |-> TRUE, n |-> n, sums |-> s, divisors |-> d]

\* A context nothing was reported to.
NoDisplay ==
    /\ engine = "group"
    /\ ctx_sums = EmptyDict
    /\ ctx_divisors = EmptyCounter
    /\ bar_n = 0
    /\ postfix = EmptyDict
    /\ refreshed = [shown |-> FALSE, n |-> 0, sums |-> EmptyDict, divisors |-> EmptyCounter]
    /\ outcomes = <<>>
    /\ kept = <<>>

\* --------------------------------------------------- gather_trajectories
Calls == 1..NumCalls

\* A task is named by the call, group and position of the coroutine it
\* runs; Main is the task of the top-level caller.
Main == <<0, 0, 0>>
Tasks == {Main} \cup (Calls \X (1..MaxCallGroups) \X (1..MaxGroupLen))

\* One element of `groups`: a bare coroutine, or a list of n coroutines.
GroupArgs ==
    {[bare |-> TRUE, n |-> 0]} \cup {[bare |-> FALSE, n |-> k] : k \in 0..MaxGroupLen}

\* Variant of GroupLen: a bare coroutine is taken as a list, which has no
\* element.
GroupLen_NoWrap(a) == a.n

\* groups = [list([g] if isinstance(g, Coroutine) else g) for g in groups]
GroupLen(a) == IF a.bare THEN 1 ELSE a.n

\* total = sum(len(g) for g in groups)
CallTotal(gs) == SumSeq([g \in DOMAIN gs |-> GroupLen(gs[g])])

TasksOf(c) ==
    {t \in Tasks : /\ t[1] = c
                   /\ t[2] \in DOMAIN call_groups[c]
                   /\ t[3] \in 1..GroupLen(call_groups[c][t[2]])}

\* GroupsContext(pbar=tqdm(total=total), ...): the counters start empty.
NewGroupsContext(total) ==
    [n |-> 0, total |-> total, metric_sums |-> EmptyCounter,
     metric_divisors |-> EmptyCounter]

\* Variant of CurrentContext: one binding for every task, as a module
\* global would give.
CurrentContext_Global(t) == groups_context_var[Main]

\* get_groups_context(): the binding of the running task's Context.
CurrentContext(t) == groups_context_var[t]

\* The Trajectory the coroutine of task t returns.
TaskTrajectory(t) == RolloutTrajectory(t[2], t[3])

\* No gather_trajectories call was made: the module is imported, the
\* variable has its default GroupsContext().
NoCalls ==
    /\ call_pc = [c \in Calls |-> "idle"]
    /\ call_groups = [c \in Calls |-> <<>>]
    /\ return_exceptions = [c \in Calls |-> TRUE]
    /\ caller = [c \in Calls |-> Main]
    /\ token = [c \in Calls |-> 0]
    /\ groups_context_var = [t \in Tasks |-> 0]
    /\ groups_context = [x \in 0..NumCalls |-> NewGroupsContext(0)]
    /\ wrap = [t \in Tasks |-> "none"]
    /\ wrap_context = [t \in Tasks |-> 0]
    /\ call_result = [c \in Calls |-> <<>>]

\* Task t awaits a gather_trajectories call it made.
InCall(t) == \E c \in Calls : call_pc[c] = "running" /\ caller[c] = t

\* gather_trajectories up to its await: the groups are normalised, a new
\* context is bound in the caller's task, and asyncio.gather makes one task
\* per coroutine, each with a copy of the caller's Context. The caller is
\* the top-level task or a rollout of another call that is running its
\* coroutine.
CallStart(c, t, gs, re) ==
    /\ call_pc[c] = "idle"
    /\ c > 1 => call_pc[c - 1] # "idle"
    /\ t = Main \/ wrap[t] = "awaiting"
    /\ ~InCall(t)
    /\ call_pc' = [call_pc EXCEPT ![c] = "running"]
    /\ call_groups' = [call_groups EXCEPT ![c] = gs]
    /\ return_exceptions' = [return_exceptions EXCEPT ![c] = re]
    /\ caller' = [caller EXCEPT ![c] = t]
    /\ groups_context' = [groups_context EXCEPT ![c] = NewGroupsContext(CallTotal(gs))]
    /\ token' = [token EXCEPT ![c] = groups_context_var[t]]
    /\ groups_context_var' =
          [u \in Tasks |-> IF u = t \/ u \in TasksOf(c)' THEN c ELSE groups_context_var[u]]
    /\ wrap' = [u \in Tasks |-> IF u \in TasksOf(c)' THEN "created" ELSE wrap[u]]
    /\ UNCHANGED <<services, display, group_vars, wrap_context, call_result>>

\* wrap_coroutine up to its await: it reads the context, then the rollout
\* coroutine runs.
WrapStart(t) ==
    /\ wrap[t] = "created"
    /\ wrap' = [wrap EXCEPT ![t] = "awaiting"]
    /\ wrap_context' = [wrap_context EXCEPT ![t] = CurrentContext(t)]
    /\ UNCHANGED <<services, display, group_vars, call_pc, call_groups, return_exceptions, caller, token,
                   groups_context_var, groups_context, call_result>>

\* The rollout of t returned a Trajectory: the bar advances and the metrics
\* are recorded in the context wrap_coroutine read.
WrapSuccess(t) ==
    /\ wrap[t] = "awaiting"
    /\ ~InCall(t)
    /\ wrap' = [wrap EXCEPT ![t] = "succeeded"]
    /\ groups_context' = [groups_context EXCEPT ![wrap_context[t]] =
          [@ EXCEPT !.n = @ + 1,
                    !.metric_sums = RecordedSums(@, TaskTrajectory(t)),
                    !.metric_divisors = RecordedDivisors(@, TaskTrajectory(t))]]
    /\ UNCHANGED <<services, display, group_vars, call_pc, call_groups, return_exceptions, caller, token,
                   groups_context_var, wrap_context, call_result>>

\* The rollout of t raised: the exception is counted, the bar refreshed,
\* and the exception raised again.
WrapFailure(t) ==
    /\ wrap[t] = "awaiting"
    /\ ~InCall(t)
    /\ wrap' = [wrap EXCEPT ![t] = "failed"]
    /\ groups_context' = [groups_context EXCEPT ![wrap_context[t]] =
          [@ EXCEPT !.metric_sums = CounterAdd(@, "exceptions", 1)]]
    /\ UNCHANGED <<services, display, group_vars, call_pc, call_groups, return_exceptions, caller, token,
                   groups_context_var, wrap_context, call_result>>

\* Variant of BindingAfterExit: the reset is skipped when the block is left
\* by an exception.
BindingAfterExit_NoFinally(c, raising) ==
    IF raising THEN groups_context_var[caller[c]] ELSE token[c]

\* set_groups_context: `try: yield / finally: groups_context_var.reset(token)`.
\* However the with block of call c is left, the caller's task gets back
\* the binding the token recorded.
BindingAfterExit(c, raising) == token[c]

\* What asyncio.gather holds for task t, a Trajectory as wrap_coroutine
\* left it or the exception.
TaskResult(t) ==
    IF wrap[t] = "succeeded"
    THEN WithCompletionTokens(TaskTrajectory(t))
    ELSE RolloutException(t[3])

\* The flattened result_groups: one list per group, in submission order.
CallResult(c) ==
    [g \in DOMAIN call_groups[c] |->
        [i \in 1..GroupLen(call_groups[c][g]) |-> TaskResult(<<c, g, i>>)]]

\* Every task of c is done: the with block is left, the binding reset, and
\* the call returns. Without return_exceptions it returns only when no
\* coroutine raised.
CallReturn(c) ==
    /\ call_pc[c] = "running"
    /\ \A t \in TasksOf(c) : wrap[t] \in {"succeeded", "failed"}
    /\ return_exceptions[c] \/ \A t \in TasksOf(c) : wrap[t] = "succeeded"
    /\ call_pc' = [call_pc EXCEPT ![c] = "returned"]
    /\ groups_context_var' = [groups_context_var EXCEPT ![caller[c]] = BindingAfterExit(c, FALSE)]
    /\ call_result' = [call_result EXCEPT ![c] = CallResult(c)]
    /\ UNCHANGED <<services, display, group_vars, call_groups, return_exceptions, caller, token,
                   groups_context, wrap, wrap_context>>

\* Without return_exceptions the first exception leaves asyncio.gather at
\* once: the binding is reset and the call raises, its other tasks go on.
CallRaise(c) ==
    /\ call_pc[c] = "running"
    /\ ~return_exceptions[c]
    /\ \E t \in TasksOf(c) : wrap[t] = "failed"
    /\ call_pc' = [call_pc EXCEPT ![c] = "raised"]
    /\ groups_context_var' = [groups_context_var EXCEPT ![caller[c]] = BindingAfterExit(c, TRUE)]
    /\ UNCHANGED <<services, display, group_vars, call_groups, return_exceptions, caller, token,
                   groups_context, wrap, wrap_context, call_result>>

\* ------------------------------------- gather_trajectories: the result
\* One element of `groups` of the call whose result is assembled.
ResultGroupArgs ==
    {[bare |-> TRUE, n |-> 0]} \cup {[bare |-> FALSE, n |-> k] : k \in 0..MaxResultLen}

\* What the coroutine <<g, i>> yields: its k-th Trajectory, or its exception.
ResultTrajectory(g, i, k) == [is |-> "Trajectory", g |-> g, i |-> i, k |-> k]
ResultException(g, i) == [is |-> "exception", g |-> g, i |-> i, k |-> 0]

\* What a wrap_coroutine task holds: nothing yet, the Trajectory its
\* coroutine returned, list(result) for any other iterable, or the
\* exception it raised again.
Running == [list |-> FALSE, items |-> <<>>]
ReturnedTrajectory(g, i) == [list |-> FALSE, items |-> <<ResultTrajectory(g, i, 1)>>]
ReturnedList(g, i, n) == [list |-> TRUE, items |-> [k \in 1..n |-> ResultTrajectory(g, i, k)]]
Raised(g, i) == [list |-> FALSE, items |-> <<ResultException(g, i)>>]

IsException(r) == ~r.list /\ r.items # <<>> /\ r.items[1].is = "exception"

\* The coroutines of the call, after `groups` was normalised.
ResultTasks ==
    {t \in (1..MaxResultGroups) \X (1..MaxResultLen) :
        t[1] \in DOMAIN gt_groups /\ t[2] \in 1..GroupLen(gt_groups[t[1]])}

\* Variant of Gathered: the results in the order the coroutines finished.
Gathered_AsCompleted(g) ==
    LET mine == SelectSeq(gt_finished, LAMBDA t : t[1] = g)
    IN  [p \in 1..Len(mine) |-> gt_task[g][mine[p][2]]]

\* asyncio.gather(*[wrap_coroutine(c) for c in g]): the list of what the
\* tasks hold, in the order the coroutines were given.
Gathered(g) == [i \in 1..GroupLen(gt_groups[g]) |-> gt_task[g][i]]

RECURSIVE Flatten(_)
\* [item for items in group for item in (items if isinstance(items, list)
\*  else [items])]
Flatten(group) ==
    IF group = <<>> THEN <<>>
    ELSE (IF Head(group).list THEN Head(group).items ELSE <<Head(group).items[1]>>)
             \o Flatten(Tail(group))

\* Variant of FirstException: the failure of the earliest position.
FirstException_ByPosition ==
    LET failed == {t \in ResultTasks : IsException(gt_task[t[1]][t[2]])}
        t == CHOOSE t \in failed : \A u \in failed :
                 t[1] < u[1] \/ (t[1] = u[1] /\ t[2] <= u[2])
    IN  ResultException(t[1], t[2])

\* Without return_exceptions asyncio.gather sets the first exception that
\* reaches it on its future, and the outer gather does the same with the
\* first inner gather that failed: the caller gets the failure that
\* happened first.
FirstException ==
    LET failed == SelectSeq(gt_finished, LAMBDA t : IsException(gt_task[t[1]][t[2]]))
    IN  ResultException(failed[1][1], failed[1][2])

\* wrap_coroutine of coroutine i of group g ends: with the Trajectory (n = 1,
\* not a list), with the list of the n Trajectories of another iterable, or
\* by raising again. Tasks go on after the call has raised.
ResultSettle(g, i, r) ==
    /\ <<g, i>> \in ResultTasks
    /\ gt_task[g][i] = Running
    /\ r \in {ReturnedTrajectory(g, i), Raised(g, i)}
                \cup {ReturnedList(g, i, n) : n \in 0..MaxList}
    /\ gt_task' = [gt_task EXCEPT ![g][i] = r]
    /\ gt_finished' = Append(gt_finished, <<g, i>>)
    /\ UNCHANGED <<gathering, engine_vars, tune_vars, deploy_vars, gt_groups, gt_return_exceptions, gt_pc, gt_result, gt_raised>>

\* Every task is done and, without return_exceptions, none raised: the
\* call returns the flattened lists.
ResultReturn ==
    /\ gt_pc = "running"
    /\ \A t \in ResultTasks : gt_task[t[1]][t[2]] # Running
    /\ gt_return_exceptions \/ \A t \in ResultTasks : ~IsException(gt_task[t[1]][t[2]])
    /\ gt_pc' = "returned"
    /\ gt_result' = [g \in DOMAIN gt_groups |-> Flatten(Gathered(g))]
    /\ UNCHANGED <<gathering, engine_vars, tune_vars, deploy_vars, gt_groups, gt_return_exceptions, gt_task, gt_finished, gt_raised>>

\* Without return_exceptions a failure leaves both gathers and the call.
ResultRaise ==
    /\ gt_pc = "running"
    /\ ~gt_return_exceptions
    /\ \E t \in ResultTasks : IsException(gt_task[t[1]][t[2]])
    /\ gt_pc' = "raised"
    /\ gt_raised' = <<FirstException>>
    /\ UNCHANGED <<gathering, engine_vars, tune_vars, deploy_vars, gt_groups, gt_return_exceptions, gt_task, gt_finished, gt_result>>

\* No call whose result is followed.
NoResults ==
    /\ gt_groups = <<>>
    /\ gt_return_exceptions = TRUE
    /\ gt_task = <<>>
    /\ gt_finished = <<>>
    /\ gt_pc = "running"
    /\ gt_result = <<>>
    /\ gt_raised = <<>>

\* ------------------------------------------- the engine pause gate
\* create_engine_pause_and_resume_functions (art/unsloth/vllm.py). An
\* asyncio.Event that is set lets wait() through without a yield; set()
\* only schedules the tasks that wait, and a woken wait() returns without
\* reading the event again.
Engines == 1..NumEngines

\* engine.engine.has_unfinished_requests()
HasUnfinishedRequests == \E v \in Engines : unfinished[v] > 0

\* A request arrives at virtual engine v.
AddRequest(v) ==
    /\ unfinished[v] < MaxRequests
    /\ unfinished' = [unfinished EXCEPT ![v] = @ + 1]
    /\ UNCHANGED <<gathering, result_vars, tune_vars, deploy_vars, resume_event, engine_step_event, step_pc, pause_pc>>

\* The loop of virtual engine v, which has requests in progress, calls
\* engine_step: engine_step_event is set, which wakes a pause_engine that
\* waits; then the call passes the gate when resume_event is set, and the
\* underlying step begins, or it waits at the gate.
EngineStep(v) ==
    /\ step_pc[v] = "idle"
    /\ unfinished[v] > 0
    /\ engine_step_event' = TRUE
    /\ pause_pc' = IF pause_pc = "waiting" THEN "woken" ELSE pause_pc
    /\ step_pc' = [step_pc EXCEPT ![v] = IF resume_event THEN "stepping" ELSE "blocked"]
    /\ UNCHANGED <<gathering, result_vars, tune_vars, deploy_vars, resume_event, unfinished>>

\* A call that resume_event.set() woke runs again: wait() returns True and
\* the underlying step begins.
StepResume(v) ==
    /\ step_pc[v] = "woken"
    /\ step_pc' = [step_pc EXCEPT ![v] = "stepping"]
    /\ UNCHANGED <<gathering, result_vars, tune_vars, deploy_vars, resume_event, engine_step_event, unfinished, pause_pc>>

\* The underlying step of v ends, having finished fin of its requests.
StepEnd(v, fin) ==
    /\ step_pc[v] = "stepping"
    /\ fin \in 0..unfinished[v]
    /\ step_pc' = [step_pc EXCEPT ![v] = "idle"]
    /\ unfinished' = [unfinished EXCEPT ![v] = @ - fin]
    /\ UNCHANGED <<gathering, result_vars, tune_vars, deploy_vars, resume_event, engine_step_event, pause_pc>>

\* pause_engine up to its await: the gate is closed; with unfinished
\* requests engine_step_event is cleared and awaited, otherwise the call
\* returns.
PauseEngine ==
    /\ pause_pc = "idle"
    /\ resume_event' = FALSE
    /\ engine_step_event' = IF HasUnfinishedRequests THEN FALSE ELSE engine_step_event
    /\ pause_pc' = IF HasUnfinishedRequests THEN "waiting" ELSE "idle"
    /\ UNCHANGED <<gathering, result_vars, tune_vars, deploy_vars, step_pc, unfinished>>

\* The pause_engine that engine_step_event.set() woke returns.
PauseReturn ==
    /\ pause_pc = "woken"
    /\ pause_pc' = "idle"
    /\ UNCHANGED <<gathering, result_vars, tune_vars, deploy_vars, resume_event, engine_step_event, step_pc, unfinished>>

\* resume_engine: resume_event.set() schedules every call that waits at
\* the gate.
ResumeEngine ==
    /\ resume_event' = TRUE
    /\ step_pc' = [v \in Engines |-> IF step_pc[v] = "blocked" THEN "woken" ELSE step_pc[v]]
    /\ UNCHANGED <<gathering, result_vars, tune_vars, deploy_vars, engine_step_event, unfinished, pause_pc>>

\* The functions were created: resume_event is set, engine_step_event is
\* not, no request is in progress.
NoEngine ==
    /\ resume_event = TRUE
    /\ engine_step_event = FALSE
    /\ step_pc = [v \in Engines |-> "idle"]
    /\ unfinished = [v \in Engines |-> 0]
    /\ pause_pc = "idle"

\* ------------------------------------------------ ModelService.tune
\* tune (art/unsloth/service.py) and the training task (art/unsloth/train.py)
\* around state.inputs_queue, an asyncio.Queue: join() returns at once when
\* no task is unfinished, and a join() that waits is scheduled when
\* task_done brings the count to zero.
TuneCalls == 1..NumTuneCalls

\* `await inputs_queue.join()` waits exactly when tasks are unfinished.
MustWait(n) == n > 0

\* `if self._train_task is None`
CreatesTask(task) == task = "none"

\* tune from its join (line 69) to its await of asyncio.wait (line 85): the
\* inputs are put, the training task is created if there is none, and a
\* task is made for inputs_queue.join().
Enqueue(c, n) ==
    /\ inputs_queue' = inputs_queue \o [k \in 1..n |-> c]
    /\ unfinished_tasks' = unfinished_tasks + n
    /\ tune_n' = [tune_n EXCEPT ![c] = n]
    /\ train_task' = IF CreatesTask(train_task) THEN "running" ELSE train_task
    /\ tasks_created' = IF CreatesTask(train_task) THEN tasks_created + 1 ELSE tasks_created
    /\ join_task' = [join_task EXCEPT ![c] = "created"]
    /\ tune_pc' = [tune_pc EXCEPT ![c] = "waiting"]
    /\ UNCHANGED done_inputs

\* A tune call with n inputs starts: it waits at the join, or goes on to
\* enqueue.
TuneCall(c, n) ==
    /\ tune_pc[c] = "idle"
    /\ c > 1 => tune_pc[c - 1] # "idle"
    /\ IF MustWait(unfinished_tasks)
       THEN /\ tune_pc' = [tune_pc EXCEPT ![c] = "joining"]
            /\ tune_n' = [tune_n EXCEPT ![c] = n]
            /\ UNCHANGED <<inputs_queue, unfinished_tasks, done_inputs, train_task,
                           join_task, tasks_created>>
       ELSE Enqueue(c, n)
    /\ UNCHANGED <<gathering, result_vars, engine_vars, deploy_vars>>

\* The call whose join was woken runs again and enqueues.
TuneJoined(c) ==
    /\ tune_pc[c] = "joined"
    /\ Enqueue(c, tune_n[c])
    /\ UNCHANGED <<gathering, result_vars, engine_vars, deploy_vars>>

\* The task made for inputs_queue.join() runs: it is done at once when no
\* task is unfinished, and waits otherwise.
JoinTaskRun(c) ==
    /\ join_task[c] = "created"
    /\ join_task' = [join_task EXCEPT ![c] =
          IF MustWait(unfinished_tasks) THEN "waiting" ELSE "done"]
    /\ UNCHANGED <<gathering, result_vars, engine_vars, deploy_vars, tune_pc, tune_n, inputs_queue,
                   unfinished_tasks, done_inputs, train_task, tasks_created>>

\* One training step: _prepare_inputs gets the next input, compute_loss
\* runs on it and its finally clause calls task_done, which wakes every
\* join when the count reaches zero; an exception in compute_loss ends the
\* training task.
TrainStep(ok) ==
    /\ train_task = "running"
    /\ inputs_queue # <<>>
    /\ inputs_queue' = Tail(inputs_queue)
    /\ unfinished_tasks' = unfinished_tasks - 1
    /\ done_inputs' = [done_inputs EXCEPT ![Head(inputs_queue)] = @ + 1]
    /\ train_task' = IF ok THEN "running" ELSE "failed"
    /\ tune_pc' = [c \in TuneCalls |->
          IF unfinished_tasks' = 0 /\ tune_pc[c] = "joining" THEN "joined" ELSE tune_pc[c]]
    /\ join_task' = [c \in TuneCalls |->
          IF unfinished_tasks' = 0 /\ join_task[c] = "waiting" THEN "done" ELSE join_task[c]]
    /\ UNCHANGED <<gathering, result_vars, engine_vars, deploy_vars, tune_n, tasks_created>>

\* trainer.train() raises outside compute_loss: the training task ends
\* with the exception and no task_done.
TrainFail ==
    /\ train_task = "running"
    /\ train_task' = "failed"
    /\ UNCHANGED <<gathering, result_vars, engine_vars, deploy_vars, tune_pc, tune_n, inputs_queue,
                   unfinished_tasks, done_inputs, join_task, tasks_created>>

\* asyncio.wait returned: with the training task done the call raises (its
\* exception, or the failed unpacking of two done tasks); with the join
\* alone done the new LoRA is saved and swapped in, and the call returns.
TuneResume(c) ==
    /\ tune_pc[c] = "waiting"
    /\ train_task = "failed" \/ join_task[c] = "done"
    /\ tune_pc' = [tune_pc EXCEPT ![c] = IF train_task = "failed" THEN "raised" ELSE "saved"]
    /\ UNCHANGED <<gathering, result_vars, engine_vars, deploy_vars, tune_n, inputs_queue,
                   unfinished_tasks, done_inputs, train_task, join_task, tasks_created>>

\* The service was made: an empty queue, no training task.
NoTune ==
    /\ tune_pc = [c \in TuneCalls |-> "idle"]
    /\ tune_n = [c \in TuneCalls |-> 0]
    /\ inputs_queue = <<>>
    /\ unfinished_tasks = 0
    /\ done_inputs = [c \in TuneCalls |-> 0]
    /\ train_task = "none"
    /\ join_task = [c \in TuneCalls |-> "none"]
    /\ tasks_created = 0

\* ------------------------------------------- Backend._experimental_deploy
\* _experimental_deploy (art/backend.py) and wait_for_together_job
\* (art/utils/deploy_model.py) for one model and step, against the jobs
\* Together holds for it. jobs[j] is the status of job j; 0 stands for no
\* job (None).
DeployCalls == 1..NumDeployCalls

\* LoRADeploymentJobStatus, and how Together moves a job on.
JobMoves ==
    {<<"Queued", "Running">>, <<"Queued", "Failed">>,
     <<"Running", "Complete">>, <<"Running", "Failed">>}

\* find_existing_together_job_id(model, step): the job Together holds for
\* the model and step, the latest when there are several, or None.
FindExistingJob == Len(jobs)

\* check_together_job_status(existing_job_id) when there is an id.
ExistingStatus(id) == IF id = 0 THEN "none" ELSE jobs[id]

\* Variant of ShouldSubmit: only a missing job is submitted.
ShouldSubmit_OnlyWhenNone(status) == status = "none"

\* `if not existing_job or existing_job.status == "Failed"`
ShouldSubmit(status) == status = "none" \/ status = "Failed"

\* What a call ended with.
ReturnedStatus(by, status) == [kind |-> "returned", by |-> by, value |-> status]
RaisedError(by, error) == [kind |-> "raised", by |-> by, value |-> error]

\* Together moves job j on.
JobProgress(j, st) ==
    /\ j \in DOMAIN jobs
    /\ <<jobs[j], st>> \in JobMoves
    /\ jobs' = [jobs EXCEPT ![j] = st]
    /\ UNCHANGED <<gathering, result_vars, engine_vars, tune_vars, base_supported, deploy_pc,
                   wait_for_completion, existing_job_id, job_id, deploy_result>>

\* A call starts, the one before it having ended (the calls are repeated,
\* they do not overlap), and runs up to the answer of
\* find_existing_together_job_id.
DeployFind(c, w) ==
    /\ deploy_pc[c] = "idle"
    /\ c > 1 => deploy_pc[c - 1] = "done"
    /\ wait_for_completion' = [wait_for_completion EXCEPT ![c] = w]
    /\ existing_job_id' = [existing_job_id EXCEPT ![c] = FindExistingJob]
    /\ deploy_pc' = [deploy_pc EXCEPT ![c] = "found"]
    /\ UNCHANGED <<gathering, result_vars, engine_vars, tune_vars, base_supported, jobs, job_id,
                   deploy_result>>

\* The status of the existing job is read and the call decides: it calls
\* deploy_together, which raises for a base model Together does not serve
\* and else posts a new job, or it takes the existing job.
DeployDecide(c) ==
    /\ deploy_pc[c] = "found"
    /\ IF ~ShouldSubmit(ExistingStatus(existing_job_id[c]))
       THEN /\ job_id' = [job_id EXCEPT ![c] = existing_job_id[c]]
            /\ deploy_pc' = [deploy_pc EXCEPT ![c] = "decided"]
            /\ UNCHANGED <<jobs, deploy_result>>
       ELSE IF base_supported
       THEN /\ jobs' = Append(jobs, "Queued")
            /\ job_id' = [job_id EXCEPT ![c] = Len(jobs) + 1]
            /\ deploy_pc' = [deploy_pc EXCEPT ![c] = "decided"]
            /\ UNCHANGED deploy_result
       ELSE /\ deploy_pc' = [deploy_pc EXCEPT ![c] = "done"]
            /\ deploy_result' = [deploy_result EXCEPT ![c] =
                  RaisedError("deploy_together", "UnsupportedBaseModelDeploymentError")]
            /\ UNCHANGED <<jobs, job_id>>
    /\ UNCHANGED <<gathering, result_vars, engine_vars, tune_vars, base_supported,
                   wait_for_completion, existing_job_id>>

\* wait_for_together_job: the first pass of the loop gets the status, a
\* LoRADeploymentJobStatusBody, and prints job_status['status']; a pydantic
\* model has no __getitem__, so the f-string raises TypeError before the
\* status is compared, and the call ends there.
DeployWait(c) ==
    /\ deploy_pc[c] = "decided"
    /\ wait_for_completion[c]
    /\ deploy_pc' = [deploy_pc EXCEPT ![c] = "done"]
    /\ deploy_result' = [deploy_result EXCEPT ![c] =
          RaisedError("wait_for_together_job", "TypeError")]
    /\ UNCHANGED <<gathering, result_vars, engine_vars, tune_vars, base_supported, jobs,
                   wait_for_completion, existing_job_id, job_id>>

\* Without wait_for_completion the call returns the status of the job as
\* check_together_job_status reads it.
DeployStatus(c) ==
    /\ deploy_pc[c] = "decided"
    /\ ~wait_for_completion[c]
    /\ deploy_pc' = [deploy_pc EXCEPT ![c] = "done"]
    /\ deploy_result' = [deploy_result EXCEPT ![c] =
          ReturnedStatus("check_together_job_status", jobs[job_id[c]])]
    /\ UNCHANGED <<gathering, result_vars, engine_vars, tune_vars, base_supported, jobs,
                   wait_for_completion, existing_job_id, job_id>>

\* No deployment was asked for.
NoDeploy ==
    /\ base_supported = TRUE
    /\ jobs = <<>>
    /\ deploy_pc = [c \in DeployCalls |-> "idle"]
    /\ wait_for_completion = [c \in DeployCalls |-> TRUE]
    /\ existing_job_id = [c \in DeployCalls |-> 0]
    /\ job_id = [c \in DeployCalls |-> 0]
    /\ deploy_result = [c \in DeployCalls |-> [kind |-> "none", by |-> "", value |-> ""]]

NoServices == NoResults /\ NoEngine /\ NoTune /\ NoDeploy

\* The state of the group variables while gather_trajectories is studied:
\* no TrajectoryGroup is built.
NoGroups ==
    /\ kind = [g \in Groups |-> "resolved"]
    /\ num_trajectories = [g \in Groups |-> 0]
    /\ caller_exceptions = [g \in Groups |-> <<>>]
    /\ max_exceptions = [num |-> 0, den |-> 1]
    /\ pbar = TRUE
    /\ rollout = [g \in Groups |-> <<>>]
    /\ done = [g \in Groups |-> <<>>]
    /\ trajectories = [g \in Groups |-> <<>>]
    /\ exceptions = [g \in Groups |-> <<>>]
    /\ gstate = [g \in Groups |-> "Completed"]
    /\ completed_count = 0
    /\ total_count = 0
    /\ metric_sums = EmptyCounter
    /\ metric_divisors = EmptyCounter
    /\ gather_pc = "running"
    /\ result = <<>>
    /\ copies = [g \in Groups |-> <<>>]
    /\ same_list = FALSE
    /\ caller_list = [g \in Groups |-> <<>>]

GatherTrajectoriesInit == NoGroups /\ NoCalls /\ NoDisplay /\ NoServices

GatherTrajectoriesNext ==
    \/ \E c \in Calls, t \in Tasks, re \in BOOLEAN :
          \E k \in 0..MaxCallGroups : \E gs \in [1..k -> GroupArgs] :
              CallStart(c, t, gs, re)
    \/ \E t \in Tasks : WrapStart(t)
    \/ \E t \in Tasks : WrapSuccess(t)
    \/ \E t \in Tasks : WrapFailure(t)
    \/ \E c \in Calls : CallReturn(c)
    \/ \E c \in Calls : CallRaise(c)

GatherTrajectoriesSpec == GatherTrajectoriesInit /\ [][GatherTrajectoriesNext]_vars

\* ------------------------------------------- reporting to a context
\* The loop of a group took a Trajectory: record_metrics, then
\* update_pbar(n=1).
GroupSucceeds(j) ==
    /\ engine = "group"
    /\ Len(outcomes) < MaxOutcomes
    /\ outcomes' = Append(outcomes, j)
    /\ kept' = Append(kept, Derived(Sample(j)))
    /\ ctx_sums' = SumsAfter(ctx_sums, Sample(j))
    /\ ctx_divisors' = DivisorsAfter(ctx_divisors, Sample(j))
    /\ bar_n' = bar_n + 1
    /\ postfix' = Postfix(ctx_sums', ctx_divisors')
    /\ refreshed' = Refreshed(bar_n', ctx_sums', ctx_divisors')
    /\ UNCHANGED <<services, group_vars, calls, engine>>

\* wrap_coroutine got a Trajectory: update_pbar(n=1), then the metrics are
\* recorded.
WrapSucceeds(j) ==
    /\ engine = "wrap"
    /\ Len(outcomes) < MaxOutcomes
    /\ outcomes' = Append(outcomes, j)
    /\ bar_n' = bar_n + 1
    /\ postfix' = Postfix(ctx_sums, ctx_divisors)
    /\ refreshed' = Refreshed(bar_n', ctx_sums, ctx_divisors)
    /\ kept' = Append(kept, Derived(Sample(j)))
    /\ ctx_sums' = SumsAfter(ctx_sums, Sample(j))
    /\ ctx_divisors' = DivisorsAfter(ctx_divisors, Sample(j))
    /\ UNCHANGED <<services, group_vars, calls, engine>>

\* A rollout raised, in either engine: the exception is counted, then
\* update_pbar(n=0).
Fails ==
    /\ Len(outcomes) < MaxOutcomes
    /\ outcomes' = Append(outcomes, 0)
    /\ ctx_sums' = DictAdd(ctx_sums, "exceptions", IntNum(1))
    /\ postfix' = Postfix(ctx_sums', ctx_divisors)
    /\ refreshed' = Refreshed(bar_n, ctx_sums', ctx_divisors)
    /\ UNCHANGED <<services, group_vars, calls, engine, ctx_divisors, bar_n, kept>>

DisplayInit ==
    /\ NoGroups
    /\ NoCalls
    /\ NoServices
    /\ engine \in {"group", "wrap"}
    /\ ctx_sums = EmptyDict
    /\ ctx_divisors = EmptyCounter
    /\ bar_n = 0
    /\ postfix = EmptyDict
    /\ refreshed = [shown |-> FALSE, n |-> 0, sums |-> EmptyDict, divisors |-> EmptyCounter]
    /\ outcomes = <<>>
    /\ kept = <<>>

DisplayNext ==
    \/ \E j \in Samples : GroupSucceeds(j)
    \/ \E j \in Samples : WrapSucceeds(j)
    \/ Fails

DisplaySpec == DisplayInit /\ [][DisplayNext]_vars

Init ==
    /\ num_trajectories \in [Groups -> 0..MaxRollouts]
    /\ ProgressTotal(num_trajectories) <= MaxTotal
    /\ kind \in [Groups -> {"pending", "resolved"}]
    /\ \A g \in Groups : kind[g] \in GroupKinds(num_trajectories[g])
    /\ \E c \in [Groups -> 0..MaxCallerExc] :
          caller_exceptions = [g \in Groups |-> CallerExceptions(c[g])]
    /\ max_exceptions \in MaxExceptionsValues
    /\ pbar \in BOOLEAN
    /\ rollout = [g \in Groups |->
          IF kind[g] = "pending"
          THEN [i \in 1..num_trajectories[g] |-> "Pending"]
          ELSE <<>>]
    /\ done = [g \in Groups |-> <<>>]
    /\ trajectories = [g \in Groups |->
          IF kind[g] = "pending" THEN <<>>
          ELSE ResolvedGroup(GivenTrajectories(g, num_trajectories[g]),
                             caller_exceptions[g]).trajectories]
    /\ exceptions = caller_exceptions
    /\ gstate = [g \in Groups |->
          IF kind[g] = "pending" THEN "Pending" ELSE "Completed"]
    /\ completed_count = 0
    /\ total_count = ProgressTotal(num_trajectories)
    /\ metric_sums = EmptyCounter
    /\ metric_divisors = EmptyCounter
    /\ gather_pc = "running"
    /\ result = <<>>
    /\ copies = [g \in Groups |-> <<>>]
    /\ same_list \in BOOLEAN
    /\ same_list => \A g, h \in Groups : caller_exceptions[g] = caller_exceptions[h]
    /\ caller_list = caller_exceptions
    /\ NoCalls
    /\ NoDisplay
    /\ NoServices

\* ---------------------------------------------------------- actions
\* The coroutine of g runs up to its first await: as_completed schedules
\* every member rollout.
StartGroup(g) ==
    /\ gather_pc = "running"
    /\ gstate[g] = "Pending"
    /\ gstate' = [gstate EXCEPT ![g] = "Collecting"]
    /\ rollout' = [rollout EXCEPT ![g] = [i \in DOMAIN rollout[g] |-> "Running"]]
    /\ UNCHANGED <<services, display, calls, caller_list, inputs, done, trajectories, exceptions, context, gather_pc, result, copies>>

\* A running rollout returns its Trajectory (ok) or raises. Nothing cancels
\* it: it settles whatever became of its group or of the gather call.
Settle(g, i, ok) ==
    /\ rollout[g][i] = "Running"
    /\ rollout' = [rollout EXCEPT ![g][i] = IF ok THEN "Succeeded" ELSE "Failed"]
    /\ done' = [done EXCEPT ![g] = Append(@, i)]
    /\ UNCHANGED <<services, display, calls, caller_list, inputs, trajectories, exceptions, gstate, context, gather_pc, result, copies>>

\* `trajectory = await future` returned: append, record_metrics, update_pbar(n=1).
ProcessSuccess(g) ==
    /\ CanProcess(g)
    /\ rollout[g][NextCompleted(g)] = "Succeeded"
    /\ LET t == RolloutTrajectory(g, NextCompleted(g)) IN
        /\ trajectories' = [trajectories EXCEPT ![g] = Append(@, WithCompletionTokens(t))]
        /\ metric_sums' = RecordedSums(metric_sums, t)
        /\ metric_divisors' = RecordedDivisors(metric_divisors, t)
    /\ completed_count' = UpdatePbar(1)
    /\ gstate' = [gstate EXCEPT ![g] = AfterOutcome(g)]
    /\ UNCHANGED <<services, display, calls, caller_list, inputs, rollout, done, exceptions, total_count, gather_pc, result, copies>>

\* Variant of ProcessFailure: the error is appended twice.
ProcessFailure_AppendTwice(g) ==
    /\ CanProcess(g)
    /\ rollout[g][NextCompleted(g)] = "Failed"
    /\ exceptions' = [exceptions EXCEPT ![g] =
          Append(Append(@, RolloutException(NextCompleted(g))),
                 RolloutException(NextCompleted(g)))]
    /\ metric_sums' = CounterAdd(metric_sums, "exceptions", 1)
    /\ completed_count' = UpdatePbar(0)
    /\ gstate' = [gstate EXCEPT ![g] = AfterFailure(g, metric_sums')]
    /\ caller_list' = CallerListAfter(caller_list, g, RolloutException(NextCompleted(g)))
    /\ UNCHANGED <<services, display, calls, inputs, rollout, done, trajectories, total_count, metric_divisors,
                   gather_pc, result, copies>>

\* `await future` raised: append e, count it, update_pbar(n=0), and raise
\* when the context says too many.
ProcessFailure(g) ==
    /\ CanProcess(g)
    /\ rollout[g][NextCompleted(g)] = "Failed"
    /\ exceptions' = [exceptions EXCEPT ![g] = Append(@, RolloutException(NextCompleted(g)))]
    /\ metric_sums' = CounterAdd(metric_sums, "exceptions", 1)
    /\ completed_count' = UpdatePbar(0)
    /\ gstate' = [gstate EXCEPT ![g] = AfterFailure(g, metric_sums')]
    /\ caller_list' = CallerListAfter(caller_list, g, RolloutException(NextCompleted(g)))
    /\ UNCHANGED <<services, display, calls, inputs, rollout, done, trajectories, total_count, metric_divisors,
                   gather_pc, result, copies>>

\* Variant of ReturnedGroups: a placeholder (0) stands for an aborted group.
ReturnedGroups_Placeholder ==
    [g \in 1..NumGroups |-> IF gstate[g] = "Completed" THEN g ELSE 0]

\* The groups gather returns: those that did not abort, in input order.
ReturnedGroups ==
    SelectSeq([g \in 1..NumGroups |-> g], LAMBDA g : gstate[g] = "Completed")

\* Variant of GatherOutcome: the abort of a group is raised to the caller.
GatherOutcome_Raise ==
    IF \E g \in Groups : gstate[g] = "Aborted" THEN "raised" ELSE "returned"

\* How the gather call ends once every group is terminal: an abort stays
\* inside its group, the call returns.
GatherOutcome == "returned"

\* Every group reached a terminal state: gather drops the aborted ones and
\* returns the rest.
GatherReturn ==
    /\ gather_pc = "running"
    /\ \A g \in Groups : gstate[g] \in {"Completed", "Aborted"}
    /\ gather_pc' = GatherOutcome
    /\ result' = IF gather_pc' = "returned" THEN ReturnedGroups ELSE <<>>
    /\ UNCHANGED <<services, display, calls, caller_list, inputs, rollout, done, trajectories, exceptions, gstate, context, copies>>

\* A caller builds a TrajectoryGroup again from the list of Trajectories a
\* resolved group was built from: synchronous, no await, no context.
Construct(g) ==
    /\ kind[g] = "resolved"
    /\ Len(copies[g]) < MaxCopies
    /\ copies' = [copies EXCEPT ![g] =
          Append(@, ResolvedGroup(GivenTrajectories(g, num_trajectories[g]),
                                  caller_exceptions[g]))]
    /\ UNCHANGED <<services, display, calls, caller_list, inputs, rollout, done, trajectories, exceptions, gstate, context,
                   gather_pc, result>>

Next ==
    \/ \E g \in Groups : StartGroup(g)
    \/ \E g \in Groups : \E i \in DOMAIN rollout[g] : \E ok \in BOOLEAN : Settle(g, i, ok)
    \/ \E g \in Groups : ProcessSuccess(g)
    \/ \E g \in Groups : ProcessFailure(g)
    \/ GatherReturn
    \/ \E g \in Groups : Construct(g)

Spec == Init /\ [][Next]_vars

\* The event loop runs every task that is ready: the coroutine of a group
\* that can start or take an outcome does so, and gather returns once it
\* can. Nothing is assumed of the rollouts, which settle or not.
Fairness ==
    /\ \A g \in Groups : WF_vars(StartGroup(g))
    /\ \A g \in Groups : WF_vars(ProcessSuccess(g))
    /\ \A g \in Groups : WF_vars(ProcessFailure(g))
    /\ WF_vars(GatherReturn)

\* The calls the progress properties are checked on: a bar, no exceptions
\* list from the caller, and one budget of each kind (none, an absolute
\* count, a ratio).
FairInit ==
    /\ Init
    /\ pbar
    /\ \A g \in Groups : caller_exceptions[g] = <<>>
    /\ ~same_list
    /\ max_exceptions \in {[num |-> 0, den |-> 1], [num |-> 1, den |-> 1],
                            [num |-> 1, den |-> 2]}

FairSpec == FairInit /\ [][Next]_vars /\ Fairness

\* ------------------------------------ gather_trajectories: the result
\* One call: any groups, bare coroutines among them, either setting of
\* return_exceptions; asyncio.gather has made one task per coroutine.
ResultInit ==
    /\ NoGroups /\ NoCalls /\ NoDisplay /\ NoEngine /\ NoTune /\ NoDeploy
    /\ \E n \in 0..MaxResultGroups : gt_groups \in [1..n -> ResultGroupArgs]
    /\ gt_return_exceptions \in BOOLEAN
    /\ gt_task = [g \in DOMAIN gt_groups |-> [i \in 1..GroupLen(gt_groups[g]) |-> Running]]
    /\ gt_finished = <<>>
    /\ gt_pc = "running"
    /\ gt_result = <<>>
    /\ gt_raised = <<>>

ResultNext ==
    \/ \E g \in 1..MaxResultGroups, i \in 1..MaxResultLen :
          \E r \in {ReturnedTrajectory(g, i), Raised(g, i)}
                      \cup {ReturnedList(g, i, n) : n \in 0..MaxList} :
              ResultSettle(g, i, r)
    \/ ResultReturn
    \/ ResultRaise

ResultSpec == ResultInit /\ [][ResultNext]_vars

\* ------------------------------------------- the engine pause gate
EngineInit == NoGroups /\ NoCalls /\ NoDisplay /\ NoResults /\ NoEngine /\ NoTune /\ NoDeploy

EngineNext ==
    \/ \E v \in Engines : AddRequest(v)
    \/ \E v \in Engines : EngineStep(v)
    \/ \E v \in Engines : StepResume(v)
    \/ \E v \in Engines : \E fin \in 0..MaxRequests : StepEnd(v, fin)
    \/ PauseEngine
    \/ PauseReturn
    \/ ResumeEngine

\* The event loop runs every task that is ready, an underlying step ends,
\* and the loop of an engine with requests in progress calls engine_step
\* again. Nothing is assumed of new requests, nor of the callers of
\* pause_engine and resume_engine.
EngineFairness ==
    /\ \A v \in Engines : WF_vars(EngineStep(v))
    /\ \A v \in Engines : WF_vars(StepResume(v))
    /\ \A v \in Engines : WF_vars(\E fin \in 0..MaxRequests : StepEnd(v, fin))
    /\ WF_vars(PauseReturn)

EngineSpec == EngineInit /\ [][EngineNext]_vars /\ EngineFairness

\* ------------------------------------------------ ModelService.tune
TuneInit == NoGroups /\ NoCalls /\ NoDisplay /\ NoResults /\ NoEngine /\ NoTune /\ NoDeploy

TuneNext ==
    \/ \E c \in TuneCalls, n \in 0..MaxInputs : TuneCall(c, n)
    \/ \E c \in TuneCalls : TuneJoined(c)
    \/ \E c \in TuneCalls : JoinTaskRun(c)
    \/ \E ok \in BOOLEAN : TrainStep(ok)
    \/ TrainFail
    \/ \E c \in TuneCalls : TuneResume(c)

\* The event loop runs every task that is ready, and the training task
\* takes the next input while there is one. Nothing is assumed of the
\* callers of tune.
TuneFairness ==
    /\ \A c \in TuneCalls : WF_vars(TuneJoined(c))
    /\ \A c \in TuneCalls : WF_vars(JoinTaskRun(c))
    /\ \A c \in TuneCalls : WF_vars(TuneResume(c))
    /\ WF_vars(\E ok \in BOOLEAN : TrainStep(ok))

TuneSpec == TuneInit /\ [][TuneNext]_vars /\ TuneFairness

\* ------------------------------------------- Backend._experimental_deploy
\* A model whose base model Together serves or not, and no job for it yet.
DeployInit ==
    /\ NoGroups /\ NoCalls /\ NoDisplay /\ NoResults /\ NoEngine /\ NoTune
    /\ base_supported \in BOOLEAN
    /\ jobs = <<>>
    /\ deploy_pc = [c \in DeployCalls |-> "idle"]
    /\ wait_for_completion = [c \in DeployCalls |-> TRUE]
    /\ existing_job_id = [c \in DeployCalls |-> 0]
    /\ job_id = [c \in DeployCalls |-> 0]
    /\ deploy_result = [c \in DeployCalls |-> [kind |-> "none", by |-> "", value |-> ""]]

DeployNext ==
    \/ \E j \in 1..NumDeployCalls, st \in {"Running", "Complete", "Failed"} : JobProgress(j, st)
    \/ \E c \in DeployCalls, w \in BOOLEAN : DeployFind(c, w)
    \/ \E c \in DeployCalls : DeployDecide(c)
    \/ \E c \in DeployCalls : DeployWait(c)
    \/ \E c \in DeployCalls : DeployStatus(c)

DeploySpec == DeployInit /\ [][DeployNext]_vars

\* -------------------------------------------------------- type invariant
TypeOK ==
    /\ gather_pc \in {"running", "returned", "raised"}
    /\ \A g \in Groups :
        /\ gstate[g] \in {"Pending", "Collecting", "Completed", "Aborted"}
        /\ \A i \in DOMAIN rollout[g] :
              rollout[g][i] \in {"Pending", "Running", "Succeeded", "Failed"}
        /\ kind[g] = "pending" => Processed(g) \in 0..Len(done[g])
    /\ completed_count \in 0..total_count


\* ============================================================== claims
Pending == {g \in Groups : kind[g] = "pending"}

InResult(g) == \E p \in DOMAIN result : result[p] = g

\* Failures recorded so far over all groups of the call.
CallFailures ==
    SumOver([g \in Groups |-> FailuresRecorded(g)], Groups)

\* The budget rule: a count n against max_exceptions m, a ratio being taken
\* over total.
BudgetExceeded(n, total, m) ==
    IF m.den = 1 THEN n > m.num ELSE n * m.den > m.num * total

AbortsNow(g) == gstate[g] # "Aborted" /\ gstate'[g] = "Aborted"

RecordsFailureNow(g) == FailuresRecorded(g)' = FailuresRecorded(g) + 1

Ids(s) == {s[p].id : p \in DOMAIN s}

RolloutsIn(g, st) == {i \in DOMAIN rollout[g] : rollout[g][i] = st}

\* Every rollout of g was collected: the successes in trajectories, the
\* failures in exceptions after the caller's entries, each once.
AllCollected(g) ==
    /\ \A i \in DOMAIN rollout[g] : rollout[g][i] \in {"Succeeded", "Failed"}
    /\ Ids(trajectories[g]) = RolloutsIn(g, "Succeeded")
    /\ Len(trajectories[g]) = Cardinality(RolloutsIn(g, "Succeeded"))
    /\ SubSeq(exceptions[g], 1, Len(caller_exceptions[g])) = caller_exceptions[g]
    /\ {exceptions[g][p] : p \in Len(caller_exceptions[g]) + 1 .. Len(exceptions[g])}
          = {RolloutException(i) : i \in RolloutsIn(g, "Failed")}
    /\ FailuresRecorded(g) = Cardinality(RolloutsIn(g, "Failed"))

\* C1: when gather has returned, the result holds exactly the input groups
\* that were not aborted, in input order and without placeholders, so its
\* length is the number of input groups minus the number of aborted ones.
C1_ResultIsNonAbortedInOrder ==
    gather_pc = "returned" =>
        /\ \A g \in Groups : InResult(g) <=> gstate[g] # "Aborted"
        /\ \A p \in DOMAIN result : result[p] \in Groups
        /\ \A p, q \in DOMAIN result : p < q => result[p] < result[q]
        /\ Len(result) = NumGroups - Cardinality({g \in Groups : gstate[g] = "Aborted"})

C1_Witness ==
    /\ gather_pc = "returned"
    /\ gstate[1] = "Aborted"
    /\ gstate[NumGroups] = "Completed"
    /\ Len(result) = NumGroups - 1

\* Rollouts of g that failed, once all of them have settled.
AllSettled(g) == \A i \in DOMAIN rollout[g] : rollout[g][i] \in {"Succeeded", "Failed"}

OwnFailures(g) == Cardinality(RolloutsIn(g, "Failed"))

AbsoluteBudget == ~IsRatio(max_exceptions) /\ max_exceptions.num >= 1

OnlyPendingGroup(g) == Pending = {g}

ZeroTolerance == max_exceptions = [num |-> 0, den |-> 1]

Half == [num |-> 1, den |-> 2]

PosInDone(g, i) == CHOOSE p \in DOMAIN done[g] : done[g][p] = i

\* C6: in a group resolved from pending rollouts, of two rollouts that both
\* succeeded the one that finished first is earlier in trajectories, whatever
\* their submission order.
C6_CompletionOrder ==
    \A g \in Pending :
        \A p, q \in DOMAIN trajectories[g] :
            p < q =>
                /\ trajectories[g][p].id \in {done[g][k] : k \in DOMAIN done[g]}
                /\ trajectories[g][q].id \in {done[g][k] : k \in DOMAIN done[g]}
                /\ PosInDone(g, trajectories[g][p].id) < PosInDone(g, trajectories[g][q].id)

\* Two successes collected against their submission order.
C6_Witness ==
    \E g \in Pending :
        /\ Len(trajectories[g]) >= 2
        /\ trajectories[g][1].id > trajectories[g][2].id
        /\ PosInDone(g, trajectories[g][1].id) < PosInDone(g, trajectories[g][2].id)

\* The outcomes the loop of g has taken so far are where they belong: a
\* success in trajectories, a failure in exceptions.
PrefixCollected(g) ==
    \A p \in 1..Processed(g) :
        IF rollout[g][done[g][p]] = "Succeeded"
        THEN done[g][p] \in Ids(trajectories[g])
        ELSE RolloutException(done[g][p]) \in
                {exceptions[g][k] : k \in Len(caller_exceptions[g]) + 1 .. Len(exceptions[g])}

\* C7: a failure is caught in its group and never keeps another outcome from
\* being collected: a group that is not aborted has taken every outcome it
\* has awaited, can take the next finished one, and once complete holds each
\* rollout in trajectories if it succeeded and in exceptions if it failed,
\* whatever failed in sibling rollouts or sibling groups.
C7_FailuresCaughtInGroup ==
    \A g \in Pending :
        /\ gstate[g] \in {"Collecting", "Completed"} => PrefixCollected(g)
        /\ CanProcess(g) => ENABLED (ProcessSuccess(g) \/ ProcessFailure(g))
        /\ gstate[g] = "Completed" => AllCollected(g)

\* A group complete with a success and a failure beside an aborted sibling.
C7_Witness ==
    \E g, h \in Pending :
        /\ g # h
        /\ gstate[h] = "Aborted"
        /\ gstate[g] = "Completed"
        /\ FailuresRecorded(g) >= 1
        /\ Len(trajectories[g]) >= 1

\* C8: an abort never leaves its group: the gather call does not raise, and
\* with aborted groups it still returns, those groups omitted.
C8_AbortStaysInGroup ==
    /\ gather_pc # "raised"
    /\ (gather_pc = "running" /\ \A g \in Groups : gstate[g] \in {"Completed", "Aborted"})
          => ENABLED GatherReturn
    /\ (gather_pc = "returned" /\ \E g \in Groups : gstate[g] = "Aborted")
          => \A g \in Groups : gstate[g] = "Aborted" => ~InResult(g)

C8_Witness ==
    /\ gather_pc = "returned"
    /\ \A g \in Groups : gstate[g] = "Aborted"
    /\ result = <<>>

GroupSize(g) == Len(trajectories[g]) + Len(exceptions[g])

\* C9 as stated: len(trajectories) + len(exceptions) <= num_trajectories in
\* every state, for every caller-supplied exceptions list.
C9_Original_SizeBound ==
    \A g \in Pending : GroupSize(g) <= num_trajectories[g]

\* C9 amended: len(trajectories) + len(exceptions) <= num_trajectories plus
\* the length of the caller-supplied exceptions list, in every state; so the
\* bound num_trajectories holds when the caller supplies no exceptions.
C9_SizeBoundWithCallerList ==
    \A g \in Groups :
        /\ GroupSize(g) <= num_trajectories[g] + Len(caller_exceptions[g])
        /\ caller_exceptions[g] = <<>> => GroupSize(g) <= num_trajectories[g]
        /\ kind[g] = "pending" => Processed(g) <= num_trajectories[g]

C9_Witness ==
    \E g \in Pending :
        /\ caller_exceptions[g] # <<>>
        /\ FailuresRecorded(g) >= 1
        /\ GroupSize(g) = num_trajectories[g] + Len(caller_exceptions[g])

\* C10 as stated: in a terminal state, Completed or Aborted,
\* len(trajectories) + len(exceptions) = num_trajectories.
C10_Original_TerminalSize ==
    \A g \in Pending :
        gstate[g] \in {"Completed", "Aborted"} => GroupSize(g) = num_trajectories[g]

\* C10 amended: a Completed group has len(trajectories) + len(exceptions) =
\* num_trajectories plus the length of the caller-supplied exceptions list
\* (num_trajectories when the caller supplied none); an Aborted group has at
\* most that many and at least one failure, and holds no outcome of the
\* rollouts it did not await.
C10_TerminalSize ==
    \A g \in Groups :
        /\ gstate[g] = "Completed" =>
              /\ GroupSize(g) = num_trajectories[g] + Len(caller_exceptions[g])
              /\ caller_exceptions[g] = <<>> => GroupSize(g) = num_trajectories[g]
        /\ gstate[g] = "Aborted" =>
              /\ GroupSize(g) <= num_trajectories[g] + Len(caller_exceptions[g])
              /\ FailuresRecorded(g) >= 1
              /\ Processed(g) <= Len(done[g])

\* An aborted group that holds fewer entries than it has rollouts.
C10_Witness ==
    \E g \in Pending :
        /\ gstate[g] = "Aborted"
        /\ caller_exceptions[g] = <<>>
        /\ GroupSize(g) < num_trajectories[g]

\* Successes collected so far from the rollouts of all pending groups.
SuccessesCollected ==
    SumOver([g \in Groups |-> IF kind[g] = "pending" THEN Len(trajectories[g]) ELSE 0],
            Groups)

NoneAborted == \A g \in Groups : gstate[g] # "Aborted"

C12_ProgressTotalFixed ==
    /\ [][total_count' = total_count]_vars
    /\ [](total_count = SumSeq(num_trajectories))
    /\ [](\A g \in Groups :
            /\ kind[g] = "pending" => num_trajectories[g] = Len(rollout[g])
            /\ kind[g] = "resolved" => num_trajectories[g] = Len(trajectories[g]))
    /\ [](ProgressTotal(<<3, 5>>) = 8)

C12_Witness ==
    /\ kind[1] = "pending"
    /\ kind[NumGroups] = "resolved"
    /\ num_trajectories[1] >= 2
    /\ num_trajectories[NumGroups] >= 1
    /\ total_count = num_trajectories[1] + num_trajectories[NumGroups]
    /\ Processed(1) = num_trajectories[1]

\* The Trajectories recorded so far: place p of the list of pending group g.
Recorded == {<<g, p>> : g \in Pending, p \in 1..MaxRollouts} \cap
            {x \in Groups \X (1..MaxRollouts) : x[2] <= Len(trajectories[x[1]])}

RecordedTrajectory(x) == trajectories[x[1]][x[2]]

\* A Trajectory carries its reward under the key reward and every key of
\* its metrics map.
Carries(t, k) == k = "reward" \/ k \in DOMAIN t.metrics

MetricOf(t, k) == IF k = "reward" THEN t.reward ELSE t.metrics[k]

Carriers(k) == {x \in Recorded : Carries(RecordedTrajectory(x), k)}

TrajectoryKeys == {"reward", "steps", "completion_tokens"}

\* C13 as stated: for every metric key, metric_sums[key] is the sum of the
\* metric over the recorded Trajectories that carry it and
\* metric_divisors[key] the number of those Trajectories.
C13_Original_SumsAndCounts ==
    \A k \in TrajectoryKeys :
        /\ CounterGet(metric_divisors, k) = Cardinality(Carriers(k))
        /\ CounterGet(metric_sums, k) =
              SumOver([x \in Carriers(k) |-> MetricOf(RecordedTrajectory(x), k)],
                      Carriers(k))

\* What holds of every key of the metrics maps: sum and count are taken
\* over the Trajectories whose metrics map has the key.
C13_MetricsMapKeys ==
    \A k \in TrajectoryKeys :
        LET has == {x \in Recorded : k \in DOMAIN RecordedTrajectory(x).metrics}
            extra == IF k = "reward" THEN Cardinality(Recorded) ELSE 0
            rewards == IF k = "reward"
                       THEN SumOver([x \in Recorded |-> RecordedTrajectory(x).reward],
                                    Recorded)
                       ELSE 0
        IN /\ CounterGet(metric_divisors, k) = Cardinality(has) + extra
           /\ CounterGet(metric_sums, k) =
                 SumOver([x \in has |-> RecordedTrajectory(x).metrics[k]], has) + rewards

\* C14: the reward is recorded once per recorded Trajectory, whatever keys
\* its metrics map has: metric_divisors['reward'] is the number of recorded
\* Trajectories and metric_sums['reward'] the sum of their rewards.
C14_RewardRecordedOnce ==
    /\ CounterGet(metric_divisors, "reward") = Cardinality(Recorded)
    /\ CounterGet(metric_sums, "reward") =
          SumOver([x \in Recorded |-> RecordedTrajectory(x).reward], Recorded)

\* What the rollout behind the recorded Trajectory at x returned.
Returned(x) == RolloutTrajectory(x[1], RecordedTrajectory(x).id)

\* C16 as stated: after a Trajectory was recorded, its reward and its
\* metrics map are what the rollout returned.
C16_Original_TrajectoryUntouched ==
    \A x \in Recorded :
        /\ RecordedTrajectory(x).reward = Returned(x).reward
        /\ RecordedTrajectory(x).metrics = Returned(x).metrics

\* C16 amended: recording never writes the reward, and it leaves the metrics
\* map as the rollout returned it except for the key completion_tokens,
\* which it sets to the derived average when the Trajectory has
\* log-prob-bearing entries; a Trajectory without such entries is untouched.
C16_OnlyCompletionTokensWritten ==
    \A x \in Recorded :
        LET t == RecordedTrajectory(x)
            o == Returned(x)
        IN /\ t.reward = o.reward
           /\ t.logprobs = o.logprobs
           /\ \A k \in DOMAIN o.metrics \ {"completion_tokens"} :
                 k \in DOMAIN t.metrics /\ t.metrics[k] = o.metrics[k]
           /\ o.logprobs = <<>> => t.metrics = o.metrics
           /\ o.logprobs # <<>> =>
                 /\ DOMAIN t.metrics = DOMAIN o.metrics \cup {"completion_tokens"}
                 /\ t.metrics["completion_tokens"] * Len(o.logprobs) = SumSeq(o.logprobs)

\* A recorded Trajectory whose metrics map got the derived key beside its own.
C16_Witness ==
    \E x \in Recorded :
        /\ Returned(x).logprobs # <<>>
        /\ DOMAIN Returned(x).metrics # {}
        /\ RecordedTrajectory(x).metrics # Returned(x).metrics

\* The failures the loop of g has taken, in the order it took them.
FailuresObserved(g) ==
    SelectSeq(SubSeq(done[g], 1, Processed(g)), LAMBDA i : rollout[g][i] = "Failed")

\* C17: after the caller's entries, the exceptions list of a group holds one
\* entry for each of its rollouts that failed and was processed, in the
\* order in which the failures were observed.
C17_ExceptionsInObservedOrder ==
    \A g \in Pending :
        /\ FailuresRecorded(g) = Len(FailuresObserved(g))
        /\ \A p \in 1..FailuresRecorded(g) :
              exceptions[g][Len(caller_exceptions[g]) + p]
                  = RolloutException(FailuresObserved(g)[p])

\* Two failures recorded against their submission order.
C17_Witness ==
    \E g \in Pending :
        /\ FailuresRecorded(g) >= 2
        /\ exceptions[g][Len(caller_exceptions[g]) + 1].id
              > exceptions[g][Len(caller_exceptions[g]) + 2].id

Resolved == {g \in Groups : kind[g] = "resolved"}

\* C18: building a group from resolved Trajectories is synchronous and pure.
\* The group is complete at once, its trajectories are the given sequence in
\* the given order and unmodified, every further construction from the same
\* input is equal in content, and a construction changes neither the
\* context nor any group.
C18_ResolvedConstructionPure ==
    /\ [][\A g \in Groups :
            copies'[g] # copies[g] =>
                /\ context' = context
                /\ trajectories' = trajectories
                /\ exceptions' = exceptions
                /\ gstate' = gstate]_vars
    /\ [](\A g \in Resolved :
            /\ gstate[g] = "Completed"
            /\ trajectories[g] = [i \in 1..num_trajectories[g] |-> RolloutTrajectory(g, i)]
            /\ exceptions[g] = caller_exceptions[g]
            /\ \A p \in DOMAIN copies[g] :
                  /\ copies[g][p].trajectories = trajectories[g]
                  /\ copies[g][p].exceptions = exceptions[g])
    /\ [](Resolved = Groups =>
            metric_sums = EmptyCounter /\ metric_divisors = EmptyCounter /\ completed_count = 0)

\* A second construction of a resolved group whose Trajectories have
\* log-prob-bearing entries, beside a pending group that recorded metrics.
C18_Witness ==
    \E g \in Resolved, h \in Pending :
        /\ num_trajectories[g] >= 2
        /\ Len(copies[g]) >= 1
        /\ copies[g][1].trajectories = trajectories[g]
        /\ Len(trajectories[h]) >= 1
        /\ "reward" \in DOMAIN metric_sums

Succeeded(c) == {t \in TasksOf(c) : wrap[t] = "succeeded"}

Failed(c) == {t \in TasksOf(c) : wrap[t] = "failed"}

\* The counters after the Trajectories of the tasks in S were recorded and
\* f exceptions were counted.
RECURSIVE SumsOf(_, _)
SumsOf(S, f) ==
    IF S = {}
    THEN IF f = 0 THEN EmptyCounter ELSE CounterAdd(EmptyCounter, "exceptions", f)
    ELSE LET t == CHOOSE u \in S : TRUE
         IN RecordedSums(SumsOf(S \ {t}, f), TaskTrajectory(t))

RECURSIVE DivisorsOf(_)
DivisorsOf(S) ==
    IF S = {}
    THEN EmptyCounter
    ELSE LET t == CHOOSE u \in S : TRUE
         IN RecordedDivisors(DivisorsOf(S \ {t}), TaskTrajectory(t))

\* C15: every gather_trajectories call has a context of its own. The
\* context of a call starts empty, its progress counter, metric sums,
\* metric counts and exception count are at every moment those of the
\* call's own rollouts, whether the other call is nested in one of its
\* rollouts or made before or after it; every rollout records into the
\* context of its own call, the default context is never written, and
\* after a call the caller's binding is what it was before.
C15_OwnContextPerCall ==
    /\ [](\A c \in Calls :
            /\ groups_context[c].n = Cardinality(Succeeded(c))
            /\ groups_context[c].total = CallTotal(call_groups[c])
            /\ groups_context[c].metric_sums = SumsOf(Succeeded(c), Cardinality(Failed(c)))
            /\ groups_context[c].metric_divisors = DivisorsOf(Succeeded(c)))
    /\ [](groups_context[0] = NewGroupsContext(0))
    /\ [](\A t \in Tasks :
            wrap[t] \in {"awaiting", "succeeded", "failed"} => wrap_context[t] = t[1])
    /\ [](~InCall(Main) => groups_context_var[Main] = 0)
    /\ [][\A c \in Calls :
            call_pc[c] = "idle" /\ call_pc'[c] # "idle" =>
                /\ groups_context'[c].n = 0
                /\ groups_context'[c].metric_sums = EmptyCounter
                /\ groups_context'[c].metric_divisors = EmptyCounter]_vars

\* A call nested in a rollout of another call: both recorded a Trajectory,
\* the inner call counted an exception and returned, and the outer rollout
\* finished after it.
C15_Witness ==
    /\ call_pc[1] = "returned"
    /\ call_pc[2] = "returned"
    /\ caller[2] # Main
    /\ wrap[caller[2]] = "succeeded"
    /\ Cardinality(Succeeded(2)) >= 1
    /\ Cardinality(Failed(2)) >= 1
    /\ groups_context[1].n >= 1
    /\ CounterGet(groups_context[1].metric_sums, "exceptions") = 0

BareGroups(c) == {g \in DOMAIN call_groups[c] : call_groups[c][g].bare}

\* C19: a bare rollout coroutine given as a group counts for one in the
\* progress total, runs as one rollout, and the result has one list for it
\* at its position, of length one, holding its Trajectory when it succeeded.
C19_BareCoroutineIsGroupOfOne ==
    \A c \in Calls :
        /\ call_pc[c] # "idle" =>
              /\ groups_context[c].total =
                    Cardinality(BareGroups(c))
                        + SumOver([g \in DOMAIN call_groups[c] |-> call_groups[c][g].n],
                                  DOMAIN call_groups[c] \ BareGroups(c))
              /\ \A g \in BareGroups(c) :
                    {t \in Tasks : t[1] = c /\ t[2] = g /\ wrap[t] # "none"} = {<<c, g, 1>>}
        /\ call_pc[c] = "returned" =>
              /\ Len(call_result[c]) = Len(call_groups[c])
              /\ \A g \in BareGroups(c) :
                    /\ Len(call_result[c][g]) = 1
                    /\ wrap[<<c, g, 1>>] = "succeeded" =>
                          /\ call_result[c][g][1].id = RolloutTrajectory(g, 1).id
                          /\ call_result[c][g][1].reward = RolloutTrajectory(g, 1).reward

\* A returned call that was given a bare coroutine beside a list, the bare
\* coroutine having succeeded.
C19_Witness ==
    \E c \in Calls :
        /\ call_pc[c] = "returned"
        /\ Len(call_groups[c]) = 2
        /\ \E g \in BareGroups(c) : wrap[<<c, g, 1>>] = "succeeded"
        /\ \E g \in DOMAIN call_groups[c] : ~call_groups[c][g].bare /\ call_groups[c][g].n = 1
        /\ groups_context[c].total = 2

\* ------------------------------------------------- aborts and rollouts
\* C27: an aborted group stays aborted, its trajectories and exceptions no
\* longer change, and a rollout of it that settles afterwards changes
\* nothing but its own state: no group's lists and none of the context's
\* progress counter, metric sums, metric counts and exception counter.
C27_AbortedGroupIsFrozen ==
    [][\A g \in Groups :
          gstate[g] = "Aborted" =>
              /\ gstate'[g] = "Aborted"
              /\ trajectories'[g] = trajectories[g]
              /\ exceptions'[g] = exceptions[g]
              /\ rollout'[g] # rollout[g] =>
                    /\ context' = context
                    /\ trajectories' = trajectories
                    /\ exceptions' = exceptions]_vars

\* An aborted group all of whose rollouts settled, two of them never
\* processed, while gather is still running.
C27_Witness ==
    \E g \in Pending :
        /\ gstate[g] = "Aborted"
        /\ Len(done[g]) = num_trajectories[g]
        /\ Len(done[g]) >= Processed(g) + 2
        /\ \E i \in DOMAIN rollout[g] : rollout[g][i] = "Succeeded"
        /\ gather_pc = "running"

\* The rollouts of g whose outcome the loop has appended to a list.
Contributions(g) ==
    [p \in 1..Processed(g) |->
        IF p <= Len(trajectories[g])
        THEN trajectories[g][p].id
        ELSE exceptions[g][Len(caller_exceptions[g]) + p - Len(trajectories[g])].id]

\* C28 as stated: a rollout goes Pending, Running, then Succeeded or
\* Failed; no rollout has more than one entry in the lists of its group,
\* a Trajectory only if it succeeded and an exception only if it failed;
\* and one step advances the progress counter and every metric count by
\* one at most.
C28_Original_ProcessedOnce ==
    /\ [][\A g \in Pending : \A i \in DOMAIN rollout[g] :
            rollout'[g][i] # rollout[g][i] =>
                \/ rollout[g][i] = "Pending" /\ rollout'[g][i] = "Running"
                \/ rollout[g][i] = "Running" /\ rollout'[g][i] \in {"Succeeded", "Failed"}]_vars
    /\ [](\A g \in Pending :
            /\ \A p, q \in 1..Processed(g) :
                  Contributions(g)[p] = Contributions(g)[q] => p = q
            /\ \A p \in DOMAIN trajectories[g] :
                  rollout[g][trajectories[g][p].id] = "Succeeded"
            /\ \A p \in Len(caller_exceptions[g]) + 1 .. Len(exceptions[g]) :
                  rollout[g][exceptions[g][p].id] = "Failed")
    /\ [][/\ completed_count' <= completed_count + 1
          /\ \A k \in DOMAIN metric_divisors' :
                CounterGet(metric_divisors', k) <= CounterGet(metric_divisors, k) + 1]_vars

\* The part of C28 that the code keeps: the rollout state machine and one
\* entry at most per rollout.
C28_OneEntryPerRollout ==
    /\ [][\A g \in Pending : \A i \in DOMAIN rollout[g] :
            rollout'[g][i] # rollout[g][i] =>
                \/ rollout[g][i] = "Pending" /\ rollout'[g][i] = "Running"
                \/ rollout[g][i] = "Running" /\ rollout'[g][i] \in {"Succeeded", "Failed"}]_vars
    /\ [](\A g \in Pending :
            \A p, q \in 1..Processed(g) :
                Contributions(g)[p] = Contributions(g)[q] => p = q)
    /\ [][completed_count' <= completed_count + 1]_vars

\* ------------------------------------------------------------ progress
RolloutsSettled ==
    \A g \in Pending : \A i \in DOMAIN rollout[g] : rollout[g][i] \in {"Succeeded", "Failed"}

GroupsTerminal == \A g \in Groups : gstate[g] \in {"Completed", "Aborted"}

\* C22: when every rollout eventually settles, every group eventually is
\* Completed or Aborted and the gather call eventually returns.
C22_GatherTerminates ==
    <>RolloutsSettled => <>(GroupsTerminal /\ gather_pc = "returned")

\* A returned call all of whose rollouts settled, one group completed and
\* one aborted.
C22_Witness ==
    /\ gather_pc = "returned"
    /\ RolloutsSettled
    /\ \E g \in Pending : gstate[g] = "Completed" /\ num_trajectories[g] >= 2
    /\ \E g \in Pending : gstate[g] = "Aborted"

Settled(g, i) == i \in DOMAIN rollout[g] /\ rollout[g][i] \in {"Succeeded", "Failed"}

\* The loop of g has taken the outcome of rollout i.
Taken(g, i) == \E p \in 1..Processed(g) : done[g][p] = i

\* C23: a group starts all its rollouts at once, and the outcome of a
\* rollout that settled is eventually taken by the loop of its group
\* unless the group aborts, whatever the other rollouts do.
C23_SettledIsProcessed ==
    /\ [](\A g \in Pending :
            gstate[g] # "Pending" => \A i \in DOMAIN rollout[g] : rollout[g][i] # "Pending")
    /\ \A g \in Groups : \A i \in 1..MaxRollouts :
          (kind[g] = "pending" /\ Settled(g, i))
              ~> (kind[g] = "pending" /\ (Taken(g, i) \/ gstate[g] = "Aborted"))

\* The last rollout of a group was taken while the first one and a rollout
\* of the other group are still running.
C23_Witness ==
    \E g \in Pending, h \in Pending :
        /\ g # h
        /\ num_trajectories[g] >= 2
        /\ rollout[g][1] = "Running"
        /\ Taken(g, num_trajectories[g])
        /\ gstate[g] = "Collecting"
        /\ \E i \in DOMAIN rollout[h] : rollout[h][i] = "Running"

\* ------------------------------------------------------ malformed input
\* C21: a gather call given an empty list of groups raises to its caller
\* and returns no result list.
C21_EmptyGroupListRaises ==
    \A c \in Calls :
        call_pc[c] # "idle" /\ call_groups[c] = <<>> => call_pc[c] # "returned"

\* -------------------------------------------------- the displayed snapshot
ShownKeys == {postfix.keys[p] : p \in DOMAIN postfix.keys}

\* C24 as stated: the snapshot shows, for a metric whose sum is an int, the
\* integer-division quotient of the sum by the count, and the sum itself
\* when the count is 0.
C24_IntegerAverage ==
    refreshed.shown =>
        \A k \in ShownKeys :
            refreshed.sums.val[k].int =>
                postfix.val[k] =
                    IntNum(IF CounterGet(refreshed.divisors, k) = 0
                           THEN refreshed.sums.val[k].num
                           ELSE refreshed.sums.val[k].num
                                    \div CounterGet(refreshed.divisors, k))

IsTokenKey(k) == \E p \in DOMAIN TokenKeys : TokenKeys[p] = k

OtherKeys(keys) == SelectSeq(keys, LAMBDA k : ~IsTokenKey(k))

\* C25: the snapshot shows the keys of the metric sums, every token-count
\* key after every other key, the other keys in the order the sums have
\* them.
C25_TokenKeysLast ==
    refreshed.shown =>
        /\ ShownKeys = DOMAIN refreshed.sums.val
        /\ Len(postfix.keys) = Len(refreshed.sums.keys)
        /\ \A p, q \in DOMAIN postfix.keys :
              IsTokenKey(postfix.keys[p]) /\ ~IsTokenKey(postfix.keys[q]) => q < p
        /\ OtherKeys(postfix.keys) = OtherKeys(refreshed.sums.keys)

\* The sums got prompt_tokens and completion_tokens before steps and
\* exceptions, and the snapshot shows both token keys last.
C25_Witness ==
    /\ refreshed.shown
    /\ Len(postfix.keys) >= 5
    /\ \E p, q \in DOMAIN refreshed.sums.keys :
          /\ p < q
          /\ refreshed.sums.keys[p] = "prompt_tokens"
          /\ refreshed.sums.keys[q] = "exceptions"
    /\ postfix.keys[Len(postfix.keys)] = "completion_tokens"
    /\ postfix.keys[Len(postfix.keys) - 1] = "prompt_tokens"

HasLogprobs(p) == Sample(kept[p].id).logprobs # <<>>

\* The sum of the values the kept Trajectories 1..p hold under key k.
RECURSIVE KeptSum(_, _)
KeptSum(k, p) ==
    IF p = 0 THEN IntNum(0)
    ELSE IF HasKey(kept[p].metrics, k)
         THEN NumAdd(KeptSum(k, p - 1), kept[p].metrics.val[k])
         ELSE KeptSum(k, p - 1)

\* C26: a recorded Trajectory with log-prob-bearing entries holds under
\* completion_tokens the sum of their token counts divided by their
\* number, whatever it held before; one without such entries is as the
\* rollout returned it; and the sum and count aggregated under that key are
\* those of the values the Trajectories then hold.
C26_CompletionTokensDerived ==
    /\ \A p \in DOMAIN kept :
          LET o == Sample(kept[p].id) IN
          IF HasLogprobs(p)
          THEN /\ HasKey(kept[p].metrics, "completion_tokens")
               /\ ~kept[p].metrics.val["completion_tokens"].int
               /\ kept[p].metrics.val["completion_tokens"].num * Len(o.logprobs)
                     = SumSeq(o.logprobs) * kept[p].metrics.val["completion_tokens"].den
          ELSE kept[p] = o
    /\ \/ ~HasKey(ctx_sums, "completion_tokens")
          /\ \A p \in DOMAIN kept : ~HasKey(kept[p].metrics, "completion_tokens")
       \/ /\ HasKey(ctx_sums, "completion_tokens")
          /\ ctx_sums.val["completion_tokens"] = KeptSum("completion_tokens", Len(kept))
    /\ CounterGet(ctx_divisors, "completion_tokens") =
          Cardinality({p \in DOMAIN kept : HasKey(kept[p].metrics, "completion_tokens")})

\* Recorded: a Trajectory whose reported completion_tokens was replaced by
\* the derived value, one whose derived value is not whole, and one
\* without log-probs.
C26_Witness ==
    /\ \E p \in DOMAIN kept :
          /\ HasKey(Sample(kept[p].id).metrics, "completion_tokens")
          /\ kept[p].metrics.val["completion_tokens"] = Float(3, 1)
    /\ \E p \in DOMAIN kept :
          /\ HasKey(kept[p].metrics, "completion_tokens")
          /\ kept[p].metrics.val["completion_tokens"] = Float(3, 2)
    /\ \E p \in DOMAIN kept : ~HasLogprobs(p)
    /\ ctx_sums.val["completion_tokens"] = Float(9, 2)

\* C29 as stated: at every refresh of the snapshot the count of reward is
\* the number of successes the bar has counted.
C29_SnapshotNotBehind ==
    refreshed.shown => CounterGet(refreshed.divisors, "reward") = refreshed.n

FailuresReported == Cardinality({p \in DOMAIN outcomes : outcomes[p] = 0})

\* C30 as stated: the exceptions entry of the sums is the number of
\* failures processed, its count entry is never incremented, and the
\* snapshot shows the entry as it is.
C30_ExceptionsIsFailureCount ==
    /\ (IF HasKey(ctx_sums, "exceptions") THEN ctx_sums.val["exceptions"] ELSE IntNum(0))
          = IntNum(FailuresReported)
    /\ CounterGet(ctx_divisors, "exceptions") = 0
    /\ refreshed.shown /\ "exceptions" \in ShownKeys =>
          postfix.val["exceptions"] = refreshed.sums.val["exceptions"]


\* The failures the coroutine of g has observed so far, as the entries it
\* appends for them.
ObservedEntries(g) ==
    [p \in 1..Len(FailuresObserved(g)) |-> RolloutException(FailuresObserved(g)[p])]

\* C31: resolving a pending group leaves the list object the caller gave as
\* exceptions= (the shared default included) as it was at construction; the
\* coroutine's own list is the caller's entries followed by the failures it
\* observed, in order, and holds no failure of another group, whether or
\* not the groups were given the same list object.
C31_CallerListNotMutated ==
    \A g \in Pending :
        /\ caller_list[g] = caller_exceptions[g]
        /\ exceptions[g] = caller_exceptions[g] \o ObservedEntries(g)

\* Two pending groups given one list object holding an entry, each having
\* recorded a failure of its own.
C31_Witness ==
    /\ same_list
    /\ \A g \in Groups :
          /\ kind[g] = "pending"
          /\ caller_exceptions[g] # <<>>
          /\ FailuresRecorded(g) >= 1


\* The binding task t has outside any gather_trajectories call of its own:
\* the default for the top-level task, the context of the call that made
\* it for a rollout task.
OwnBinding(t) == IF t = Main \/ wrap[t] = "none" THEN 0 ELSE t[1]

\* C32: once gather_trajectories has exited, by returning or by raising,
\* its caller's task reads the binding it had before the call; and every
\* rollout the call wrapped has read the context this call created.
C32_ContextRestoredOnExit ==
    /\ \A t \in Tasks : ~InCall(t) => groups_context_var[t] = OwnBinding(t)
    /\ \A c \in Calls : \A t \in TasksOf(c) :
          wrap[t] \in {"awaiting", "succeeded", "failed"} => wrap_context[t] = c

\* A call made from inside a rollout has raised while another of its
\* rollouts succeeded, and the call around it has returned.
C32_Witness ==
    \E c, d \in Calls :
        /\ call_pc[c] = "returned"
        /\ call_pc[d] = "raised"
        /\ caller[d] \in TasksOf(c)
        /\ \E t \in TasksOf(d) : wrap[t] = "succeeded"


\* The items coroutine i of group g contributed, as a set.
ItemsOf(g, i) == {gt_task[g][i].items[k] : k \in DOMAIN gt_task[g][i].items}

\* Position of coroutine t in the order of completion.
FinishedAt(t) == CHOOSE p \in DOMAIN gt_finished : gt_finished[p] = t

\* C33: the call returns one list per input group, in input order; the list
\* of a group holds what its coroutines yielded in the order the coroutines
\* were given, whatever the order they finished in, the Trajectories of a
\* coroutine that returned several standing together in their order; with
\* return_exceptions a failed coroutine stands as its exception at its own
\* position and the call does not raise; without it the call raises the
\* failure that happened first.
C33_ResultInSubmissionOrder ==
    /\ gt_pc = "returned" =>
        /\ DOMAIN gt_result = DOMAIN gt_groups
        /\ \A g \in DOMAIN gt_result :
            /\ {gt_result[g][p] : p \in DOMAIN gt_result[g]}
                  = UNION {ItemsOf(g, i) : i \in 1..GroupLen(gt_groups[g])}
            /\ \A p, q \in DOMAIN gt_result[g] :
                  p < q => \/ gt_result[g][p].i < gt_result[g][q].i
                           \/ /\ gt_result[g][p].i = gt_result[g][q].i
                              /\ gt_result[g][p].k < gt_result[g][q].k
            /\ \A p \in DOMAIN gt_result[g] :
                  gt_result[g][p].is = "exception" => gt_return_exceptions
    /\ gt_return_exceptions => gt_pc # "raised"
    /\ gt_pc = "raised" =>
          \E t \in ResultTasks :
              /\ IsException(gt_task[t[1]][t[2]])
              /\ gt_raised = <<ResultException(t[1], t[2])>>
              /\ \A u \in ResultTasks :
                    IsException(gt_task[u[1]][u[2]]) => FinishedAt(t) <= FinishedAt(u)

\* A returned call with a group whose second coroutine finished first and
\* raised, and whose first coroutine returned a list of two Trajectories.
C33_Witness ==
    /\ gt_pc = "returned"
    /\ \E g \in DOMAIN gt_groups :
        /\ GroupLen(gt_groups[g]) = 2
        /\ FinishedAt(<<g, 2>>) < FinishedAt(<<g, 1>>)
        /\ gt_task[g][1] = ReturnedList(g, 1, 2)
        /\ gt_task[g][2] = Raised(g, 2)
        /\ Len(gt_result[g]) = 3


\* An underlying engine step of v begins in this step.
StepBegins(v) == step_pc[v] # "stepping" /\ step_pc'[v] = "stepping"

\* C34: while the gate is closed (resume_event cleared by pause_engine and
\* not yet set by resume_engine) no underlying engine step begins; an
\* engine_step call made then waits at the gate, and a call leaves the gate
\* only when resume_engine is called.
C34_NoStepWhilePaused ==
    [][\A v \in Engines :
          /\ StepBegins(v) => resume_event
          /\ step_pc[v] = "idle" /\ step_pc'[v] # "idle" /\ ~resume_event
                => step_pc'[v] = "blocked"
          /\ step_pc[v] = "blocked" /\ step_pc'[v] # "blocked" => resume_event']_vars

\* C35: every call of pause_engine returns, with no resume_engine call and
\* no new request needed: whenever a call is in progress it ends, under the
\* fairness of EngineSpec, which gives none to ResumeEngine and AddRequest.
C35_PauseEngineReturns == (pause_pc # "idle") ~> (pause_pc = "idle")


\* The inputs call d has put in the queue so far.
Enqueued(d) == IF tune_pc[d] \in {"waiting", "saved", "raised"} THEN tune_n[d] ELSE 0

\* Call c puts its inputs in this step.
EnqueuesNow(c) == tune_pc[c] \in {"idle", "joined"} /\ tune_pc'[c] = "waiting"

\* C36: a tune call has saved and swapped in the new LoRA only when every
\* input it enqueued was taken and marked done by the training task; when
\* a call enqueues, every input of the calls made before it is marked
\* done; and over all the calls at most one training task is created.
C36_SaveAfterInputsDone ==
    /\ [](\A c \in TuneCalls : tune_pc[c] = "saved" => done_inputs[c] = tune_n[c])
    /\ [](tasks_created <= 1)
    /\ [][\A c \in TuneCalls : EnqueuesNow(c) =>
            \A d \in 1..(c - 1) : done_inputs[d] = Enqueued(d)]_vars

\* C37: a tune call made after an earlier call raised, the training task
\* having failed, does not block forever: it returns or raises.
C37_LaterTuneEnds ==
    \A c \in TuneCalls :
        (tune_pc[c] # "idle" /\ \E d \in 1..(c - 1) : tune_pc[d] = "raised")
            ~> (tune_pc[c] \in {"saved", "raised"})


\* The calls that went through wait_for_together_job and have ended.
Waited == {c \in DeployCalls : deploy_result[c].by = "wait_for_together_job"}

\* C38: wait_for_together_job ends by returning a status that is Complete,
\* never one that is Queued, Running or Failed, or, for a job that does not
\* become Complete within the limit, by raising LoRADeploymentTimedOutError.
C38_WaitEndsCompleteOrTimedOut ==
    \A c \in Waited :
        /\ deploy_result[c].kind = "returned" => deploy_result[c].value = "Complete"
        /\ deploy_result[c].kind = "raised"
              => deploy_result[c].value = "LoRADeploymentTimedOutError"

\* Call c decides in this step.
DecidesNow(c) == deploy_pc[c] = "found" /\ deploy_pc'[c] # "found"

\* It calls deploy_together: a job is added, or the call raises there.
SubmitsNow(c) == Len(jobs') = Len(jobs) + 1 \/ deploy_result'[c].by = "deploy_together"

\* It goes on with the job that exists.
ReusesNow(c) == jobs' = jobs /\ jobs # <<>> /\ job_id'[c] = Len(jobs) /\ deploy_pc'[c] = "decided"

============================================================================
